---- MODULE Spec2Model ----
(***************************************************************************)
(* Model of the edit / filter / sort / export pipeline of the Excel data   *)
(* filter application: PreviewTable (ui/preview_table.py), MainWindow      *)
(* (ui/main_window.py), FilterEngine (core/filter_engine.py), ExcelReader  *)
(* (core/excel_reader.py) and ExcelExporter (core/exporter.py).            *)
(*                                                                         *)
(* A cell value is a tagged pair: <<"int", n>>, <<"float", n>> (the float  *)
(* n.0), <<"str", text>>, <<"bool", b>> or the null cell <<"null", 0>>.    *)
(* A DataFrame is a record [columns, rows]; a                              *)
(* row is a function from column names to cell values.  Python's None is   *)
(* the record NoneDF for frames and the string "None" for names.           *)
(***************************************************************************)
EXTENDS Integers, Sequences, FiniteSets, TLC

\* ------------------------------------------------------------------ bounds
\* largest edit_version the model lets the counter reach
MaxVersion == 3
\* largest number of load threads in flight at once
MaxInFlight == 1
\* the cache_next_sheet timers pending at any time
MaxTimers == 1

\* --------------------------------------------------------------- values
IntV(n) == <<"int", n>>
FloatV(n) == <<"float", n>>
StrV(s) == <<"str", s>>
BoolV(b) == <<"bool", b>>
NullV == <<"null", 0>>
NoneStr == "None"
NoneDF == [none |-> TRUE]
HashCol == "_row_hash"

Tag(v) == v[1]
Payload(v) == v[2]

\* the texts of the model, in the byte-lexicographic order Python and Polars
\* compare strings in
TextOrder ==
    <<"", "1", "1.0", "20", "20.0", "25", "25.0", "26", "26.0", "30", "30.0", "31", "31.0",
      "35", "35.0", "Al", "Alice", "Bob", "Charlie", "False", "True", "Yes",
      "false", "no", "true", "yes">>
Texts == {TextOrder[i] : i \in 1..Len(TextOrder)}
TextRank(t) == CHOOSE i \in 1..Len(TextOrder) : TextOrder[i] = t

\* the integers of the model and their decimal text: str(n), int(text)
Numerals == <<"1", "20", "25", "26", "30", "31", "35">>
NumeralValue == <<1, 20, 25, 26, 30, 31, 35>>
IsNumeral(t) == \E i \in 1..Len(Numerals) : Numerals[i] = t
IntToText(n) == Numerals[CHOOSE i \in 1..Len(Numerals) : NumeralValue[i] = n]
TextToInt(t) == NumeralValue[CHOOSE i \in 1..Len(Numerals) : Numerals[i] = t]

\* the floats of the model are the whole numbers n.0: str(x), float(text)
FloatTexts == <<"1.0", "20.0", "25.0", "26.0", "30.0", "31.0", "35.0">>
IsFloatText(t) == IsNumeral(t) \/ \E i \in 1..Len(FloatTexts) : FloatTexts[i] = t
FloatToText(n) == FloatTexts[CHOOSE i \in 1..Len(FloatTexts) : NumeralValue[i] = n]
TextToFloat(t) ==
    IF IsNumeral(t) THEN TextToInt(t)
    ELSE NumeralValue[CHOOSE i \in 1..Len(FloatTexts) : FloatTexts[i] = t]

\* str.lower() on the texts of the model
Lower(t) ==
    CASE t = "Al" -> "al"
      [] t = "Alice" -> "alice"
      [] t = "Bob" -> "bob"
      [] t = "Charlie" -> "charlie"
      [] t = "Yes" -> "yes"
      [] t = "True" -> "true"
      [] t = "False" -> "false"
      [] OTHER -> t

\* ------------------------------------------------------------ sequences
Range(s) == {s[i] : i \in 1..Len(s)}
SeqContains(s, x) == \E i \in 1..Len(s) : s[i] = x
Perms(n) == {p \in [1..n -> 1..n] : \A i, j \in 1..n : i # j => p[i] # p[j]}
SliceSeq(s, lo, hi) == [i \in 1..(IF hi > lo THEN hi - lo ELSE 0) |-> s[lo + i]]

\* ---------------------------------------------------------- data frames
Frame(cols, rows) == [columns |-> cols, rows |-> rows]
IsNone(df) == df = NoneDF
FrameLen(df) == Len(df.rows)
HasColumn(df, c) == SeqContains(df.columns, c)
ColumnValues(df, c) == [i \in 1..FrameLen(df) |-> df.rows[i][c]]

\* dtype of a column: Polars columns are homogeneous
DType(df, c) ==
    IF \E i \in 1..FrameLen(df) : Tag(df.rows[i][c]) = "str" THEN "str"
    ELSE IF \E i \in 1..FrameLen(df) : Tag(df.rows[i][c]) = "int" THEN "int"
    ELSE IF \E i \in 1..FrameLen(df) : Tag(df.rows[i][c]) = "float" THEN "float"
    ELSE IF \E i \in 1..FrameLen(df) : Tag(df.rows[i][c]) = "bool" THEN "bool"
    ELSE "null"

\* DataFrame.drop(c)
DropColumn(df, c) ==
    LET cols == SelectSeq(df.columns, LAMBDA x : x # c)
    IN  Frame(cols, [i \in 1..FrameLen(df) |-> [x \in Range(cols) |-> df.rows[i][x]]])

\* pl.Series(values, strict=False): values of mixed type are brought to their
\* supertype; the supertype of numbers or booleans and strings is String, the
\* supertype of booleans and integers is the integer type
SeriesNonStrict(values) ==
    IF (\E i \in 1..Len(values) : Tag(values[i]) = "str")
       /\ (\E i \in 1..Len(values) : Tag(values[i]) \in {"int", "float", "bool"})
    THEN [i \in 1..Len(values) |->
            CASE Tag(values[i]) = "int" -> StrV(IntToText(Payload(values[i])))
              [] Tag(values[i]) = "float" -> StrV(FloatToText(Payload(values[i])))
              [] Tag(values[i]) = "bool" ->
                    StrV(IF Payload(values[i]) THEN "true" ELSE "false")
              [] OTHER -> values[i]]
    ELSE IF (\E i \in 1..Len(values) : Tag(values[i]) = "bool")
            /\ (\E i \in 1..Len(values) : Tag(values[i]) = "int")
    THEN [i \in 1..Len(values) |->
            IF Tag(values[i]) = "bool"
            THEN IntV(IF Payload(values[i]) THEN 1 ELSE 0)
            ELSE values[i]]
    ELSE values

\* DataFrame.with_columns(pl.Series(name=c, values=values, strict=False))
WithColumn(df, c, values) ==
    LET s == SeriesNonStrict(values)
    IN  Frame(df.columns,
              [i \in 1..FrameLen(df) |-> [x \in Range(df.columns) |->
                    IF x = c THEN s[i] ELSE df.rows[i][x]]])

\* ------------------------------------------------------------------ maps
EmptyMap == [k \in {} |-> ""]
MapPut(m, k, v) == [x \in (DOMAIN m) \cup {k} |-> IF x = k THEN v ELSE m[x]]
MapDel(m, k) == [x \in (DOMAIN m) \ {k} |-> m[x]]
Min(a, b) == IF a < b THEN a ELSE b
Max(a, b) == IF a > b THEN a ELSE b

\* ------------------------------------------------------------ the workbook
\* the workbooks on disk and their worksheets
SingleSheetFiles == {"people.xlsx", "dups.xlsx"}
MultiSheetFiles == {"book.xlsx"}
PagedFiles == {"long.xlsx"}
TypedFiles == {"rates.xlsx", "gaps.xlsx"}
FlagFiles == {"flags.xlsx"}
SheetNames(filepath) ==
    CASE filepath = "people.xlsx" -> <<"People">>
      [] filepath = "dups.xlsx" -> <<"Dups">>
      [] filepath = "long.xlsx" -> <<"Long">>
      [] filepath = "rates.xlsx" -> <<"Rates">>
      [] filepath = "gaps.xlsx" -> <<"Gaps">>
      [] filepath = "flags.xlsx" -> <<"Flags">>
      [] filepath = "ranked.xlsx" -> <<"Ranked">>
      [] filepath = "torn.xlsx" -> <<"People", "Torn", "Dups">>
      [] OTHER -> <<"People", "Dups">>
AllSheetNames == {"People", "Dups"}
PagedSheetNames == {"Long"}
Columns == <<"Name", "Age">>

RawRow(name, age) == [c \in Range(Columns) |-> IF c = "Name" THEN StrV(name) ELSE IntV(age)]

\* the rows of a worksheet (the same in every workbook that holds it); "Dups"
\* holds two identical rows and shares the row (Bob, 30) with "People"; "Long"
\* holds one row more than the smallest page; the Age column of "Rates" holds
\* floats, the integer column Age of "Gaps" has an empty cell, and the Age
\* column of "Flags" holds booleans; "Ranked" holds two rows more than the
\* smallest page and few rows of equal Age
SheetRows(s) ==
    CASE s = "People" ->
            <<RawRow("Alice", 25), RawRow("Bob", 30), RawRow("Charlie", 35)>>
      [] s = "Long" ->
            <<RawRow("Alice", 20), RawRow("Alice", 25), RawRow("Alice", 26),
              RawRow("Alice", 30), RawRow("Bob", 20), RawRow("Bob", 25),
              RawRow("Bob", 26), RawRow("Bob", 30), RawRow("Charlie", 20),
              RawRow("Charlie", 25), RawRow("Charlie", 26)>>
      [] s = "Rates" ->
            <<[RawRow("Alice", 25) EXCEPT !["Age"] = FloatV(25)],
              [RawRow("Bob", 30) EXCEPT !["Age"] = FloatV(30)]>>
      [] s = "Gaps" ->
            <<RawRow("Alice", 25), [RawRow("Bob", 30) EXCEPT !["Age"] = NullV]>>
      [] s = "Ranked" ->
            <<RawRow("Alice", 1), RawRow("Alice", 20), RawRow("Alice", 25),
              RawRow("Alice", 26), RawRow("Bob", 30), RawRow("Bob", 31),
              RawRow("Bob", 35), RawRow("Bob", 1), RawRow("Charlie", 20),
              RawRow("Charlie", 25), RawRow("Charlie", 26), RawRow("Charlie", 30)>>
      [] s = "Flags" ->
            <<[RawRow("Alice", 25) EXCEPT !["Age"] = BoolV(TRUE)],
              [RawRow("Bob", 30) EXCEPT !["Age"] = BoolV(FALSE)]>>
      [] OTHER ->
            <<RawRow("Bob", 30), RawRow("Bob", 30), RawRow("Alice", 26)>>

\* rows of the longest one-page worksheet
MaxRows == Max(Len(SheetRows("People")), Len(SheetRows("Dups")))

\* df.hash_rows(seed=0).cast(pl.Utf8): a hash of the row's content, so rows of
\* equal content get equal hashes; modelled by the content itself
HashRow(row) == [i \in 1..Len(Columns) |-> row[Columns[i]]]

\* ExcelReader.read_sheet: the worksheet with the _row_hash column stamped
ReadSheet(s) ==
    LET raw == SheetRows(s)
        cols == Columns \o <<HashCol>>
    IN  Frame(cols, [i \in 1..Len(raw) |-> [c \in Range(cols) |->
                        IF c = HashCol THEN HashRow(raw[i]) ELSE raw[i][c]]])

\* ExcelReader.get_statistics on the table read_sheet has stored
ReaderGetStatistics(df) ==
    [total_rows |-> FrameLen(df),
     total_columns |-> Len(df.columns),
     column_names |-> df.columns]

\* ExcelReader(filepath).read_sheet(s): the workbook swap.xlsx has the sheet
\* names of book.xlsx, each sheet holding the rows the other one holds there
ReadSheetOf(filepath, s) ==
    IF filepath = "swap.xlsx"
    THEN ReadSheet(IF s = "People" THEN "Dups" ELSE "People")
    ELSE ReadSheet(s)

\* read_sheet raises: the worksheet "Torn" of torn.xlsx cannot be read
ReadFails(filepath, s) == filepath = "torn.xlsx" /\ s = "Torn"

\* ------------------------------------------------------------ PreviewTable
\* PreviewTable._sanitize_cell_value on the values of the model (none of the
\* model's texts holds a control character or trailing white space)
SanitizeCellValue(v) ==
    CASE Tag(v) = "null" -> ""
      [] Tag(v) = "int" -> IntToText(Payload(v))
      [] Tag(v) = "float" -> FloatToText(Payload(v))
      [] Tag(v) = "bool" -> IF Payload(v) THEN "True" ELSE "False"
      [] OTHER -> Payload(v)

\* ------------------------------------------------- sanitizers, by character
\* A text is a sequence of pieces: the letter "a", the blank " ", the line feed,
\* the carriage return, the control character U+0001, and the two halves
\* "_x000" and "D_" of the literal "_x000D_" (which occurs in a text of these
\* pieces exactly where the two halves are adjacent).
LF == "LF"
CR == "CR"
CTL == "U+0001"
DirtyChars == {"a", " ", LF, CR, CTL, "_x000", "D_"}
MaxTextLen == 4
DirtyTexts == UNION {[1..n -> DirtyChars] : n \in 0..MaxTextLen}

\* str.replace(ch, ''), re.sub('[<set>]', '', text)
RemoveChars(s, set) == SelectSeq(s, LAMBDA ch : ch \notin set)

\* text without the longest suffix of characters of set
RECURSIVE DropTrailing(_, _)
DropTrailing(s, set) ==
    IF s = <<>> \/ s[Len(s)] \notin set THEN s
    ELSE DropTrailing(SubSeq(s, 1, Len(s) - 1), set)

\* re.sub(r'[ \t\u00A0]+$', '', text): in Python "$" matches at the end of the
\* text and also just before a line feed that ends the text
RegexStripTrailingBlanks(s) ==
    IF Len(s) >= 2 /\ s[Len(s)] = LF /\ s[Len(s) - 1] = " "
    THEN DropTrailing(SubSeq(s, 1, Len(s) - 1), {" "}) \o <<LF>>
    ELSE DropTrailing(s, {" "})

\* PreviewTable._sanitize_cell_value on a text (unicodedata.normalize("NFC")
\* leaves the characters of the model as they are)
SanitizeCellText(text) ==
    RegexStripTrailingBlanks(RemoveChars(RemoveChars(text, {CR}), {CTL}))

\* str.replace_all(first + second, with): the occurrences are found from left
\* to right in the text as given, without overlap
RECURSIVE ReplaceAllPair(_, _, _, _)
ReplaceAllPair(s, first, second, with) ==
    IF Len(s) < 2 THEN s
    ELSE IF s[1] = first /\ s[2] = second
    THEN with \o ReplaceAllPair(SubSeq(s, 3, Len(s)), first, second, with)
    ELSE <<s[1]>> \o ReplaceAllPair(Tail(s), first, second, with)

\* ExcelReader._sanitize_dataframe on one text of a string column: the four
\* string expressions in the order they are chained (strip_chars_end removes
\* the trailing white space, line feeds included)
SanitizeDataframeText(text) ==
    LET no_literal == ReplaceAllPair(text, "_x000", "D_", <<>>)
        lf_only == ReplaceAllPair(no_literal, CR, LF, <<LF>>)
        no_cr == RemoveChars(lf_only, {CR})
    IN  DropTrailing(no_cr, {" ", LF, CR})

\* PreviewTable._get_visible_columns
GetVisibleColumns(df) ==
    IF IsNone(df) THEN <<>> ELSE SelectSeq(df.columns, LAMBDA c : c # HashCol)

\* PreviewTable._get_row_hash_from_frame (1-based row index)
GetRowHashFromFrame(df, i) == df.rows[i][HashCol]

\* {h: i for i, h in enumerate(df["_row_hash"].to_list())}: the last row that
\* carries the hash; 0 when no row does
HashToIndex(df, h) ==
    LET at == {i \in 1..FrameLen(df) : df.rows[i][HashCol] = h}
    IN  IF at = {} THEN 0 ELSE CHOOSE i \in at : \A j \in at : j <= i

\* PreviewTable._column_has_edits
ColumnHasEdits(P, col) ==
    \E k \in DOMAIN P.edits : k[1] = P.current_sheet_name /\ k[3] = col

\* the sort key of _get_display_data: the column itself, or the column with the
\* overlay values patched in at the rows hash_to_index names
PatchedSortValues(P, df) ==
    LET base == ColumnValues(df, P.sort_column)
        Hit(i) == {k \in DOMAIN P.edits :
                      /\ k[1] = P.current_sheet_name
                      /\ k[3] = P.sort_column
                      /\ HashToIndex(df, k[2]) = i}
    IN  [i \in 1..FrameLen(df) |->
            IF Hit(i) # {} THEN StrV(P.edits[CHOOSE k \in Hit(i) : TRUE]) ELSE base[i]]

SortKeyValues(P, df) ==
    IF DOMAIN P.edits # {} /\ ColumnHasEdits(P, P.sort_column)
    THEN SeriesNonStrict(PatchedSortValues(P, df))
    ELSE ColumnValues(df, P.sort_column)

\* the order Polars sorts a column in: null first, numbers by value, strings
\* by their bytes
ValueLeq(a, b) ==
    CASE Tag(a) = "null" -> TRUE
      [] Tag(b) = "null" -> FALSE
      [] Tag(a) \in {"int", "float"} -> Payload(a) <= Payload(b)
      [] OTHER -> TextRank(Payload(a)) <= TextRank(Payload(b))

\* a sort that stamps the rows it returns with identities made from their keys
SortedFramesRestamped(df, keys, ascending) ==
    LET n == FrameLen(df)
        InOrder(p) == \A i \in 1..(n - 1) :
                         IF ascending THEN ValueLeq(keys[p[i]], keys[p[i + 1]])
                         ELSE ValueLeq(keys[p[i + 1]], keys[p[i]])
    IN  {Frame(df.columns, [i \in 1..n |-> [df.rows[p[i]] EXCEPT ![HashCol] = <<keys[p[i]]>>]]) :
            p \in {q \in Perms(n) : InOrder(q)}}

\* the arrangements of the row indices in S that start with a row whose key
\* comes first and go on with an arrangement of the others
RECURSIVE Arrangements(_, _, _)
Arrangements(S, keys, ascending) ==
    IF S = {} THEN {<<>>}
    ELSE UNION {{<<i>> \o t : t \in Arrangements(S \ {i}, keys, ascending)} :
                    i \in {i \in S : \A j \in S :
                              IF ascending THEN ValueLeq(keys[i], keys[j])
                              ELSE ValueLeq(keys[j], keys[i])}}

\* DataFrame.sort(key, descending): every arrangement of the rows that is in
\* key order (the order of rows with equal keys is not specified)
SortedFrames(df, keys, ascending) ==
    LET n == FrameLen(df)
        InOrder(p) == \A i \in 1..(n - 1) :
                         IF ascending THEN ValueLeq(keys[p[i]], keys[p[i + 1]])
                         ELSE ValueLeq(keys[p[i + 1]], keys[p[i]])
    IN  {Frame(df.columns, [i \in 1..n |-> df.rows[p[i]]]) :
            p \in {q \in Arrangements(1..n, keys, ascending) : InOrder(q)}}

\* PreviewTable._get_display_data: the frames it can return
GetDisplayData(P) ==
    IF IsNone(P.dataframe) THEN {NoneDF}
    ELSE IF P.display_data_cache_valid /\ ~IsNone(P.display_data_cache)
         THEN {P.display_data_cache}
    ELSE IF P.sort_column # NoneStr /\ HasColumn(P.dataframe, P.sort_column)
            /\ P.sort_column # HashCol
         THEN SortedFrames(P.dataframe, SortKeyValues(P, P.dataframe), P.sort_ascending)
    ELSE {P.dataframe}

\* ... and the cache it leaves behind when it returned dd
CacheDisplayData(P, dd) ==
    IF IsNone(P.dataframe) THEN P
    ELSE [P EXCEPT !.display_data_cache = dd, !.display_data_cache_valid = TRUE]

\* a page window that always starts at the first row
PageRowsFromTop(P, dd, page) ==
    SliceSeq(dd.rows, 0, Min(P.rows_per_page, FrameLen(dd)))

\* PreviewTable._update_table on the display data dd: the page is clamped, every
\* cell of the page is rendered (overlay value, else sanitized source value),
\* the snapshot of a cell seen for the first time is recorded, and an overlay
\* entry equal to its snapshot is dropped
PageStart(P, page) == page * P.rows_per_page
ClampPage(P, dd) ==
    LET total_pages == (FrameLen(dd) + P.rows_per_page - 1) \div P.rows_per_page
    IN  Min(P.current_page, Max(0, total_pages - 1))
PageRows(P, dd, page) ==
    SliceSeq(dd.rows, PageStart(P, page), Min(PageStart(P, page) + P.rows_per_page, FrameLen(dd)))
EditKey(P, row, col) == <<P.current_sheet_name, row[HashCol], col>>

\* a refresh that renders the cells from the frame alone
UpdateTableFromSource(P, dd) ==
    IF IsNone(dd) \/ FrameLen(dd) = 0
    THEN [P EXCEPT !.items = <<>>]
    ELSE
        LET page == ClampPage(P, dd)
            rows == PageRows(P, dd, page)
            vis == Range(GetVisibleColumns(dd))
        IN  [P EXCEPT
                !.current_page = page,
                !.items = [r \in 1..Len(rows) |-> [c \in vis |->
                            SanitizeCellValue(rows[r][c])]]]

UpdateTable(P, dd) ==
    IF IsNone(dd) \/ FrameLen(dd) = 0
    THEN [P EXCEPT !.items = <<>>]
    ELSE
        LET page == ClampPage(P, dd)
            rows == PageRows(P, dd, page)
            vis == Range(GetVisibleColumns(dd))
            shown == {<<EditKey(P, rows[r], c), SanitizeCellValue(rows[r][c])>> :
                         r \in 1..Len(rows), c \in vis}
            keys == {x[1] : x \in shown}
            origs == [k \in (DOMAIN P.original_values) \cup keys |->
                        IF k \in DOMAIN P.original_values THEN P.original_values[k]
                        ELSE (CHOOSE x \in shown : x[1] = k)[2]]
            reverted == {k \in keys \cap DOMAIN P.edits : P.edits[k] = origs[k]}
        IN  [P EXCEPT
                !.current_page = page,
                !.items = [r \in 1..Len(rows) |-> [c \in vis |->
                            IF EditKey(P, rows[r], c) \in DOMAIN P.edits
                            THEN P.edits[EditKey(P, rows[r], c)]
                            ELSE SanitizeCellValue(rows[r][c])]],
                !.original_values = origs,
                !.edits = [k \in (DOMAIN P.edits) \ reverted |-> P.edits[k]]]

\* PreviewTable.set_data(dataframe, is_filtered): sorting is reset, so the
\* display data of the refresh is the dataframe itself
SetDataScoped(P, df, is_filtered) ==
    IF IsNone(df)
    THEN [P EXCEPT !.dataframe = NoneDF, !.items = <<>>]
    ELSE
        LET P1 == [P EXCEPT
                     !.dataframe = df,
                     !.original_dataframe = IF is_filtered THEN @ ELSE df,
                     !.display_data_cache_valid = FALSE,
                     !.display_data_cache = NoneDF,
                     !.current_page = 0,
                     !.sort_column = NoneStr,
                     !.sort_ascending = TRUE]
        IN  UpdateTable(CacheDisplayData(P1, df), df)

\* every caller leaves is_filtered at its default
SetData(P, df) == SetDataScoped(P, df, FALSE)

\* PreviewTable._on_header_clicked, up to the refresh
HeaderClicked(P, column_name) ==
    [P EXCEPT
        !.sort_ascending = IF P.sort_column = column_name THEN ~@ ELSE TRUE,
        !.sort_column = column_name,
        !.display_data_cache_valid = FALSE,
        !.display_data_cache = NoneDF,
        !.current_page = 0]

\* PreviewTable._on_item_changed: the user's text new_value is in the item at
\* row r of the page (1-based), column col; dd is the display data
\* a store that counts a version only when the overlay content changes
StoreEditOnChange(P, key, new_value) ==
    [P EXCEPT !.edits = MapPut(@, key, new_value),
              !.edit_version = IF key \in DOMAIN P.edits /\ P.edits[key] = new_value
                               THEN @ ELSE @ + 1]

\* an item change that writes the text into the table instead of the overlay
ItemChangedInFrame(P, dd, r, col, new_value) ==
    LET rows == PageRows(P, dd, P.current_page)
        df == P.dataframe
    IN  IF r > Len(rows) THEN P
        ELSE [P EXCEPT
                !.dataframe = Frame(df.columns,
                    [i \in 1..FrameLen(df) |->
                        IF df.rows[i][HashCol] = rows[r][HashCol]
                        THEN [df.rows[i] EXCEPT ![col] = StrV(new_value)]
                        ELSE df.rows[i]]),
                !.items = [@ EXCEPT ![r] = [@ EXCEPT ![col] = new_value]],
                !.edit_version = @ + 1]

\* an item change that stores the text without comparing it to the snapshot
ItemChangedNoRevert(P, dd, r, col, new_value) ==
    LET rows == PageRows(P, dd, P.current_page)
        key == EditKey(P, rows[r], col)
        seeded == IF key \in DOMAIN P.original_values THEN P.original_values
                  ELSE MapPut(P.original_values, key, SanitizeCellValue(rows[r][col]))
        P1 == [P EXCEPT !.original_values = seeded,
                        !.items = [@ EXCEPT ![r] = [@ EXCEPT ![col] = new_value]]]
    IN  IF r > Len(rows) THEN P
        ELSE [P1 EXCEPT !.edits = MapPut(@, key, new_value), !.edit_version = @ + 1]

StoreEdit(P, key, new_value) ==
    [P EXCEPT !.edits = MapPut(@, key, new_value), !.edit_version = @ + 1]

ItemChanged(P, dd, r, col, new_value) ==
    LET rows == PageRows(P, dd, P.current_page)
        key == EditKey(P, rows[r], col)
        seeded == IF key \in DOMAIN P.original_values THEN P.original_values
                  ELSE MapPut(P.original_values, key, SanitizeCellValue(rows[r][col]))
        P1 == [P EXCEPT !.original_values = seeded,
                        !.items = [@ EXCEPT ![r] = [@ EXCEPT ![col] = new_value]]]
    IN  IF r > Len(rows) THEN P
        ELSE IF new_value = seeded[key]
        THEN [P1 EXCEPT !.edits = MapDel(@, key)]
        ELSE StoreEdit(P1, key, new_value)

\* an undo that drops every overlay entry of the column
UndoCellEditWholeColumn(P, row_hash, col, r) ==
    LET key == <<P.current_sheet_name, row_hash, col>>
        original_value == IF key \in DOMAIN P.original_values
                          THEN P.original_values[key] ELSE ""
        kept == {k \in DOMAIN P.edits : k[3] # col}
    IN  [P EXCEPT
            !.edits = [k \in kept |-> P.edits[k]],
            !.items = IF r \in 1..Len(@)
                      THEN [@ EXCEPT ![r] = [@ EXCEPT ![col] = original_value]]
                      ELSE @]

\* an undo that forgets the snapshot of the cell with its overlay entry
UndoCellEditForgetsSnapshot(P, row_hash, col, r) ==
    LET key == <<P.current_sheet_name, row_hash, col>>
        original_value == IF key \in DOMAIN P.original_values
                          THEN P.original_values[key] ELSE ""
    IN  [P EXCEPT
            !.edits = MapDel(@, key),
            !.original_values = MapDel(@, key),
            !.items = IF r \in 1..Len(@)
                      THEN [@ EXCEPT ![r] = [@ EXCEPT ![col] = original_value]]
                      ELSE @]

\* PreviewTable._undo_cell_edit(row_hash, col_name, display_row_idx, ...)
UndoCellEdit(P, row_hash, col, r) ==
    LET key == <<P.current_sheet_name, row_hash, col>>
        original_value == IF key \in DOMAIN P.original_values
                          THEN P.original_values[key] ELSE ""
    IN  [P EXCEPT
            !.edits = MapDel(@, key),
            !.items = IF r \in 1..Len(@)
                      THEN [@ EXCEPT ![r] = [@ EXCEPT ![col] = original_value]]
                      ELSE @]

\* an undo_all that keeps the snapshots
ClearEditsKeepSnapshots(P) == [P EXCEPT !.edits = EmptyMap]

\* PreviewTable.clear_edits, up to the refresh
ClearEdits(P) == [P EXCEPT !.edits = EmptyMap, !.original_values = EmptyMap]

\* PreviewTable.get_edited_dataframe: the type-preserving conversion of one
\* overlay text (int(text) and float(text) raise ValueError on a text that is
\* no number, and the raw text is kept then); a Python bool is an instance of
\* int, so a boolean cell takes the isinstance(original_value, int) branch
CoerceEdit(original_value, new_value) ==
    CASE Tag(original_value) \in {"int", "bool"} ->
            IF new_value = "" THEN NullV
            ELSE IF IsNumeral(new_value) THEN IntV(TextToInt(new_value))
            ELSE StrV(new_value)
      [] Tag(original_value) = "float" ->
            IF new_value = "" THEN NullV
            ELSE IF IsFloatText(new_value) THEN FloatV(TextToFloat(new_value))
            ELSE StrV(new_value)
      [] OTHER -> StrV(new_value)

\* the base table get_edited_dataframe patches
EditSource(P, use_current_view) ==
    IF use_current_view THEN P.dataframe
    ELSE IF ~IsNone(P.original_dataframe) THEN P.original_dataframe
    ELSE P.dataframe

\* the overlay entries get_edited_dataframe applies to column c
ColEdits(P, source_df, c) ==
    {k \in DOMAIN P.edits :
        /\ k[1] = P.current_sheet_name
        /\ k[3] = c
        /\ HashToIndex(source_df, k[2]) # 0}

EditedColumn(P, source_df, c) ==
    LET col_edits == ColEdits(P, source_df, c)
        At(i) == {k \in col_edits : HashToIndex(source_df, k[2]) = i}
    IN  IF col_edits = {} THEN ColumnValues(source_df, c)
        ELSE SeriesNonStrict(
                [i \in 1..FrameLen(source_df) |->
                    IF At(i) # {}
                    THEN CoerceEdit(source_df.rows[i][c], P.edits[CHOOSE k \in At(i) : TRUE])
                    ELSE source_df.rows[i][c]])

\* get_edited_dataframe as it would be if an overlay entry without a row in
\* the base table made it return the base table as it is
GetEditedDataframeGivesUp(P, use_current_view) ==
    LET source_df == EditSource(P, use_current_view)
    IN  IF IsNone(source_df) THEN NoneDF
        ELSE IF DOMAIN P.edits = {} THEN source_df
        ELSE IF \E k \in DOMAIN P.edits : HashToIndex(source_df, k[2]) = 0 THEN source_df
        ELSE Frame(source_df.columns,
                   [i \in 1..FrameLen(source_df) |-> [c \in Range(source_df.columns) |->
                        IF c = HashCol THEN source_df.rows[i][c]
                        ELSE EditedColumn(P, source_df, c)[i]]])

GetEditedDataframe(P, use_current_view) ==
    LET source_df == EditSource(P, use_current_view)
    IN  IF IsNone(source_df) THEN NoneDF
        ELSE IF DOMAIN P.edits = {} THEN source_df
        ELSE Frame(source_df.columns,
                   [i \in 1..FrameLen(source_df) |-> [c \in Range(source_df.columns) |->
                        IF c = HashCol THEN source_df.rows[i][c]
                        ELSE EditedColumn(P, source_df, c)[i]]])

\* ------------------------------------------------------------ FilterEngine
NoneEngine == [none |-> TRUE]

\* FilterEngine.__init__
NewFilterEngine(df) ==
    [dataframe |-> df, filtered_df |-> df, applied_filters |-> <<>>, filter_logic |-> "AND"]

\* FilterEngine.clear_filters
ClearFilters(E) == [E EXCEPT !.applied_filters = <<>>, !.filtered_df = E.dataframe]

\* add_filter as it would be if the new rule replaced the list
AddFilterReplaces(E, rule) == [E EXCEPT !.applied_filters = <<rule>>]

\* FilterEngine.add_filter
AddFilter(E, rule) == [E EXCEPT !.applied_filters = Append(@, rule)]

\* add_filter for each rule of a list, in order
RECURSIVE AddFilters(_, _)
AddFilters(E, rules) ==
    IF rules = <<>> THEN E ELSE AddFilters(AddFilter(E, Head(rules)), Tail(rules))

\* FilterEngine._build_filter_expression returns an expression (TRUE) or None:
\* the column must exist, the operator be known and a numeric bound parse
Buildable(E, rule) ==
    /\ HasColumn(E.dataframe, rule.column)
    /\ \/ rule.operator \in {"equals", "not_equals", "is_null", "not_null"}
       \/ rule.operator \in {"gt", "lt", "gte", "lte"} /\ IsFloatText(rule.value)

\* evaluating the expression raises when a numeric comparison meets a column
\* of strings
ExprRaises(E, rule) ==
    rule.operator \in {"gt", "lt", "gte", "lte"} /\ DType(E.dataframe, rule.column) = "str"

\* the value of the expression on one row (a null cell makes it null: FALSE)
ExprHolds(rule, row) ==
    LET v == row[rule.column]
    IN  CASE rule.operator = "is_null" -> Tag(v) = "null"
          [] rule.operator = "not_null" -> Tag(v) # "null"
          [] Tag(v) = "null" -> FALSE
          [] rule.operator = "equals" -> Lower(SanitizeCellValue(v)) = Lower(rule.value)
          [] rule.operator = "not_equals" -> Lower(SanitizeCellValue(v)) # Lower(rule.value)
          [] rule.operator = "gt" -> Payload(v) > TextToFloat(rule.value)
          [] rule.operator = "lt" -> Payload(v) < TextToFloat(rule.value)
          [] rule.operator = "gte" -> Payload(v) >= TextToFloat(rule.value)
          [] rule.operator = "lte" -> Payload(v) <= TextToFloat(rule.value)
          [] OTHER -> FALSE

\* apply_filters as it would be if one unbuildable rule made it give up
ApplyFiltersAbortOnUnbuildable(E, logic) ==
    LET Keep(row) == IF logic = "AND"
                     THEN \A i \in 1..Len(E.applied_filters) :
                             ExprHolds(E.applied_filters[i], row)
                     ELSE \E i \in 1..Len(E.applied_filters) :
                             ExprHolds(E.applied_filters[i], row)
    IN  IF E.applied_filters = <<>> THEN [E EXCEPT !.filtered_df = E.dataframe]
        ELSE IF \E i \in 1..Len(E.applied_filters) :
                   \/ ~Buildable(E, E.applied_filters[i])
                   \/ ExprRaises(E, E.applied_filters[i])
        THEN [E EXCEPT !.filter_logic = logic, !.filtered_df = E.dataframe]
        ELSE [E EXCEPT !.filter_logic = logic,
                       !.filtered_df = Frame(E.dataframe.columns,
                                             SelectSeq(E.dataframe.rows, Keep))]

\* FilterEngine.apply_filters
ApplyFilters(E, logic) ==
    LET exprs == SelectSeq(E.applied_filters, LAMBDA rule : Buildable(E, rule))
        Keep(row) == IF logic = "AND"
                     THEN \A i \in 1..Len(exprs) : ExprHolds(exprs[i], row)
                     ELSE \E i \in 1..Len(exprs) : ExprHolds(exprs[i], row)
    IN  IF E.applied_filters = <<>> THEN [E EXCEPT !.filtered_df = E.dataframe]
        ELSE IF exprs = <<>>
             \/ \E i \in 1..Len(exprs) : ExprRaises(E, exprs[i])
        THEN [E EXCEPT !.filter_logic = logic, !.filtered_df = E.dataframe]
        ELSE [E EXCEPT !.filter_logic = logic,
                       !.filtered_df = Frame(E.dataframe.columns,
                                             SelectSeq(E.dataframe.rows, Keep))]

\* get_statistics as it would be with the subtraction turned round
GetStatisticsSwapped(E) ==
    [original_rows |-> FrameLen(E.dataframe),
     filtered_rows |-> FrameLen(E.filtered_df),
     rows_removed |-> FrameLen(E.filtered_df) - FrameLen(E.dataframe),
     filter_count |-> Len(E.applied_filters)]

\* FilterEngine.get_statistics
GetStatistics(E) ==
    [original_rows |-> FrameLen(E.dataframe),
     filtered_rows |-> FrameLen(E.filtered_df),
     rows_removed |-> FrameLen(E.dataframe) - FrameLen(E.filtered_df),
     filter_count |-> Len(E.applied_filters)]

\* -------------------------------------------------------------- the state
VARIABLES
    preview_table,       \* the PreviewTable object: its fields and rendered items
    main_window,         \* the MainWindow object: file, sheets, table, engine, cache
    filter_panel,        \* the SimpleFilterPanel object: the filters it shows
    load_threads,        \* the sheets of the LoadDataThreads still running
    cache_timers,        \* the number of cache_next_sheet timers pending
    exporter_dataframe,  \* the dataframe of the ExcelExporter built last
    cell_text,           \* the text a sanitizer was given or has returned
    engine,              \* a FilterEngine object used on its own
    message_box,         \* the title of the QMessageBox on screen, if any
    export_run           \* a call of ExcelExporter.export or export_to_csv

vars == <<preview_table, main_window, filter_panel, load_threads, cache_timers,
          exporter_dataframe, cell_text, engine, message_box, export_run>>

\* no call of the exporter is under way
NoExportRun == [pc |-> "idle", format |-> NoneStr, progress |-> <<>>,
                file_written |-> FALSE, result |-> NoneStr]

\* program constants
DefaultRowsPerPage == 100
\* the least value of the rows-per-page box
MinRowsPerPage == 10
\* the values the user sets the rows-per-page box to
RowsPerPageChoices == {MinRowsPerPage, DefaultRowsPerPage}

\* the column whose cells the user edits, and the texts typed into them
EditColumns == {"Age"}
EditTexts == {"31", "25"}
\* ... and into a cell of the two-sheet workbook
BookEditTexts == {"25"}

\* the filter lists the user applies in the filter manager
Rule(column, operator, value) == [column |-> column, operator |-> operator, value |-> value]
FilterChoices ==
    {<<Rule("Age", ">", "26")>>,
     <<Rule("Name", "equals", "Bob")>>}
LogicChoices == {"AND"}

\* operator_map of MainWindow._on_filters_applied
OperatorMap(op) ==
    CASE op = "equals" -> "equals"
      [] op = "not equals" -> "not_equals"
      [] op = ">" -> "gt"
      [] op = "<" -> "lt"
      [] OTHER -> "contains"

\* SimpleFilterPanel.__init__: no filters, and no filter manager opened yet
NonePopup == [none |-> TRUE]
InitFilterPanel ==
    [current_filters |-> <<>>, current_logic |-> "AND", popup_window |-> NonePopup]

\* PopupFilterWindow.__init__ as _open_filter_manager calls it: the baseline
\* arguments are left at their default 0
NewPopupFilterWindow ==
    [shown |-> FALSE, edit_version_at_filter_time |-> 0, edit_warning_visible |-> FALSE]

\* PopupFilterWindow._check_for_edits
CheckForEdits(popup, P) ==
    [popup EXCEPT !.edit_warning_visible =
        P.edit_version > popup.edit_version_at_filter_time
            /\ popup.edit_version_at_filter_time > 0]

\* PreviewTable.__init__
InitPreviewTable ==
    [dataframe |-> NoneDF,
     original_dataframe |-> NoneDF,
     current_page |-> 0,
     rows_per_page |-> DefaultRowsPerPage,
     sort_column |-> NoneStr,
     sort_ascending |-> TRUE,
     current_sheet_name |-> NoneStr,
     edits |-> EmptyMap,
     original_values |-> EmptyMap,
     edit_version |-> 0,
     display_data_cache |-> NoneDF,
     display_data_cache_valid |-> FALSE,
     items |-> <<>>]

\* MainWindow.__init__
InitMainWindow ==
    [current_filepath |-> NoneStr,
     available_sheets |-> <<>>,
     current_sheet |-> NoneStr,
     current_dataframe |-> NoneDF,
     filter_engine |-> NoneEngine,
     sheet_cache |-> EmptyMap]

Init ==
    /\ preview_table = InitPreviewTable
    /\ main_window = InitMainWindow
    /\ filter_panel = InitFilterPanel
    /\ load_threads = <<>>
    /\ cache_timers = 0
    /\ exporter_dataframe = NoneDF
    /\ cell_text = [value |-> <<>>, by |-> "none"]
    /\ engine = NoneEngine
    /\ message_box = NoneStr
    /\ export_run = NoExportRun

\* ------------------------------------------------------------- MainWindow
\* what a MainWindow handler works on: the window, the preview table, the
\* running loads and the pending timers
World ==
    [main |-> main_window, preview |-> preview_table, loads |-> load_threads,
     timers |-> cache_timers]

\* MainWindow._load_excel_file: a LoadDataThread for the sheet is started
LoadExcelFile(W, sheet_name) ==
    [W EXCEPT !.loads = Append(@, [filepath |-> W.main.current_filepath,
                                   sheet_name |-> sheet_name])]

\* MainWindow._display_sheet_data
DisplaySheetData(W, df) ==
    [W EXCEPT !.main.current_dataframe = df, !.preview = SetData(@, df)]

\* MainWindow._on_sheet_changed
SheetChanged(W, sheet_name) ==
    IF sheet_name = "" \/ W.main.current_filepath = NoneStr
       \/ sheet_name = W.main.current_sheet
    THEN W
    ELSE IF sheet_name \in DOMAIN W.main.sheet_cache
    THEN DisplaySheetData([W EXCEPT !.main.current_sheet = sheet_name],
                          W.main.sheet_cache[sheet_name])
    ELSE LoadExcelFile([W EXCEPT !.main.current_sheet = sheet_name], sheet_name)

\* MainWindow._setup_sheet_switcher: the combo box is cleared and refilled, which
\* makes its first item current and signals currentTextChanged with it
SetupSheetSwitcher(W, sheet_names) ==
    IF Len(sheet_names) > 1 THEN SheetChanged(W, sheet_names[1]) ELSE W

\* MainWindow._auto_cache_sheets: a timer for cache_next_sheet is started
AutoCacheSheets(W, sheet_names) ==
    IF Len(sheet_names) <= 1 THEN W ELSE [W EXCEPT !.timers = @ + 1]

\* a cache_next_sheet that stores the sheet it has read under the name of
\* the first sheet of the workbook
CacheNextSheetUnderFirst(W, sheet_names) ==
    LET todo == {i \in 1..Len(sheet_names) :
                    /\ sheet_names[i] \notin DOMAIN W.main.sheet_cache
                    /\ sheet_names[i] # W.main.current_sheet
                    /\ ~ReadFails(W.main.current_filepath, sheet_names[i])}
        first == CHOOSE i \in todo : \A j \in todo : i <= j
    IN  IF todo # {}
        THEN [W EXCEPT !.main.sheet_cache =
                           MapPut(MapPut(@, sheet_names[first],
                                         ReadSheetOf(W.main.current_filepath, sheet_names[first])),
                                  sheet_names[1],
                                  ReadSheetOf(W.main.current_filepath, sheet_names[first]))]
        ELSE SetupSheetSwitcher([W EXCEPT !.timers = @ - 1], sheet_names)

\* cache_next_sheet: the first sheet that is neither cached nor current and
\* whose read does not raise is read into the cache and the timer started
\* again; when there is none the sheet switcher is set up and the timer ends
CacheNextSheet(W, sheet_names) ==
    LET todo == {i \in 1..Len(sheet_names) :
                    /\ sheet_names[i] \notin DOMAIN W.main.sheet_cache
                    /\ sheet_names[i] # W.main.current_sheet
                    /\ ~ReadFails(W.main.current_filepath, sheet_names[i])}
        first == CHOOSE i \in todo : \A j \in todo : i <= j
    IN  IF todo # {}
        THEN [W EXCEPT !.main.sheet_cache =
                           MapPut(@, sheet_names[first],
                                  ReadSheetOf(W.main.current_filepath, sheet_names[first]))]
        ELSE SetupSheetSwitcher([W EXCEPT !.timers = @ - 1], sheet_names)

\* MainWindow._on_data_loaded
DataLoaded(W, df) ==
    LET W1 == [W EXCEPT
                 !.main.current_dataframe = df,
                 !.main.filter_engine = NewFilterEngine(df),
                 !.main.sheet_cache = IF W.main.current_sheet # NoneStr
                                      THEN MapPut(@, W.main.current_sheet, df) ELSE @]
        W2 == [W1 EXCEPT !.preview = SetData(@, df)]
    IN  IF Len(W2.main.available_sheets) > 1
        THEN AutoCacheSheets(SetupSheetSwitcher(W2, W2.main.available_sheets),
                             W2.main.available_sheets)
        ELSE W2

\* MainWindow._on_filters_applied
FiltersApplied(M, P, filters, logic) ==
    IF filters = <<>>
    THEN IF IsNone(M.current_dataframe) THEN [main |-> M, preview |-> P]
         ELSE [main |-> M, preview |-> SetData(P, M.current_dataframe)]
    ELSE IF M.filter_engine = NoneEngine THEN [main |-> M, preview |-> P]
    ELSE
        LET rules == [i \in 1..Len(filters) |->
                        Rule(filters[i].column, OperatorMap(filters[i].operator),
                             filters[i].value)]
            E1 == AddFilters(ClearFilters(M.filter_engine), rules)
            E2 == ApplyFilters(E1, logic)
        IN  [main |-> [M EXCEPT !.filter_engine = E2],
             preview |-> SetData(P, E2.filtered_df)]

\* MainWindow._export_data, up to the ExcelExporter it builds
ExportFrame(M, P) ==
    LET edited_data == GetEditedDataframe(P, FALSE)
        E == M.filter_engine
    IN  IF IsNone(edited_data) THEN E.filtered_df
        ELSE IF E.applied_filters # <<>>
        THEN ApplyFilters(AddFilters(NewFilterEngine(edited_data), E.applied_filters),
                          E.filter_logic).filtered_df
        ELSE edited_data

\* an export that writes every column of the exporter's frame
ExportedTableAllColumns(df) == df

\* ExcelExporter.export: the internal column is left out of what is written
ExportedTable(df) == IF HasColumn(df, HashCol) THEN DropColumn(df, HashCol) ELSE df

\* ExcelExporter.export_to_csv: the lines of the file, the header first, each
\* line the texts of its fields (write_csv: a null is the empty field)
CsvField(v) ==
    CASE Tag(v) = "null" -> ""
      [] Tag(v) = "int" -> IntToText(Payload(v))
      [] Tag(v) = "float" -> FloatToText(Payload(v))
      [] OTHER -> Payload(v)
ExportToCsv(dataframe) ==
    LET df == IF HasColumn(dataframe, HashCol) THEN DropColumn(dataframe, HashCol)
              ELSE dataframe
    IN  <<df.columns>> \o
        [i \in 1..FrameLen(df) |->
            [j \in 1..Len(df.columns) |-> CsvField(df.rows[i][df.columns[j]])]]

\* ---------------------------------------------------------------- actions
SetWorld(W) ==
    /\ Len(W.loads) <= MaxInFlight
    /\ W.timers <= MaxTimers
    /\ cache_timers' = W.timers
    /\ main_window' = W.main
    /\ preview_table' = W.preview
    /\ load_threads' = W.loads

\* MainWindow._open_file, _on_sheets_loaded: the workbook is opened and the user
\* picks a sheet in the sheet dialog
OnOpenFile(filepath, selected_sheet) ==
    /\ selected_sheet \in Range(SheetNames(filepath))
    /\ SetWorld(LoadExcelFile(
          [World EXCEPT !.main.current_filepath = filepath,
                        !.main.available_sheets = SheetNames(filepath),
                        !.main.current_sheet = selected_sheet],
          selected_sheet))
    /\ UNCHANGED <<filter_panel, exporter_dataframe, cell_text, engine, message_box, export_run>>

\* the first workbook of a session is opened
OpenFile(filepath, selected_sheet) ==
    /\ main_window.current_filepath = NoneStr
    /\ OnOpenFile(filepath, selected_sheet)

\* LoadDataThread.run finishes and MainWindow._on_data_loaded runs
OnDataLoaded(i) ==
    /\ i \in 1..Len(load_threads)
    /\ ~ReadFails(load_threads[i].filepath, load_threads[i].sheet_name)
    /\ SetWorld(DataLoaded(
          [World EXCEPT !.loads = SubSeq(@, 1, i - 1) \o SubSeq(@, i + 1, Len(@))],
          ReadSheetOf(load_threads[i].filepath, load_threads[i].sheet_name)))
    /\ UNCHANGED <<filter_panel, exporter_dataframe, cell_text, engine, message_box, export_run>>

\* the user picks a sheet in the sheet switcher
OnSheetChanged(sheet_name) ==
    /\ ~IsNone(main_window.current_dataframe)
    /\ sheet_name \in Range(main_window.available_sheets)
    /\ sheet_name # main_window.current_sheet
    /\ SetWorld(SheetChanged(World, sheet_name))
    /\ UNCHANGED <<filter_panel, exporter_dataframe, cell_text, engine, message_box, export_run>>

\* a cache_next_sheet timer of _auto_cache_sheets fires
OnCacheNextSheet ==
    /\ cache_timers > 0
    /\ SetWorld(CacheNextSheet(World, main_window.available_sheets))
    /\ UNCHANGED <<filter_panel, exporter_dataframe, cell_text, engine, message_box, export_run>>

\* PopupFilterWindow._apply_filters, SimpleFilterPanel._on_filters_applied
OnFiltersApplied(filters, logic) ==
    /\ ~IsNone(main_window.current_dataframe)
    /\ filter_panel' = [filter_panel EXCEPT !.current_filters = filters,
                                            !.current_logic = logic]
    /\ LET R == FiltersApplied(main_window, preview_table, filters, logic)
       IN  main_window' = R.main /\ preview_table' = R.preview
    /\ UNCHANGED <<load_threads, cache_timers, exporter_dataframe, cell_text, engine,
                   message_box, export_run>>

\* SimpleFilterPanel._clear_all_filters
OnClearAllFilters ==
    /\ ~IsNone(main_window.current_dataframe)
    /\ filter_panel' = [filter_panel EXCEPT !.current_filters = <<>>,
                                            !.current_logic = "AND"]
    /\ LET R == FiltersApplied(main_window, preview_table, <<>>, "AND")
       IN  main_window' = R.main /\ preview_table' = R.preview
    /\ UNCHANGED <<load_threads, cache_timers, exporter_dataframe, cell_text, engine,
                   message_box, export_run>>

\* PreviewTable._on_header_clicked
OnHeaderClicked(column_name) ==
    /\ ~IsNone(preview_table.dataframe)
    /\ column_name \in Range(GetVisibleColumns(preview_table.dataframe))
    /\ LET P1 == HeaderClicked(preview_table, column_name)
       IN  \E dd \in GetDisplayData(P1) :
               preview_table' = UpdateTable(CacheDisplayData(P1, dd), dd)
    /\ UNCHANGED <<main_window, filter_panel, load_threads, cache_timers, exporter_dataframe,
                 cell_text, engine, message_box, export_run>>

\* PreviewTable._on_item_changed, once per itemChanged signal: the signal comes
\* with the text the user typed, and again with the same text when the handler
\* itself changes the background or the tool tip of the item
OnItemChanged(r, col, new_value) ==
    /\ ~IsNone(preview_table.dataframe)
    /\ r \in 1..Len(preview_table.items)
    /\ col \in DOMAIN preview_table.items[r]
    /\ \E dd \in GetDisplayData(preview_table) :
          LET P1 == ItemChanged(CacheDisplayData(preview_table, dd), dd, r, col, new_value)
          IN  /\ P1.edit_version <= MaxVersion
              /\ preview_table' = P1
    /\ UNCHANGED <<main_window, filter_panel, load_threads, cache_timers, exporter_dataframe,
                 cell_text, engine, message_box, export_run>>

\* PreviewTable._show_context_menu and its "Undo Edit" entry
OnUndoCellEdit(r, col) ==
    /\ r \in 1..Len(preview_table.items)
    /\ col \in DOMAIN preview_table.items[r]
    /\ \E dd \in GetDisplayData(preview_table) :
          LET P0 == CacheDisplayData(preview_table, dd)
              rows == PageRows(P0, dd, P0.current_page)
          IN  /\ ~IsNone(dd)
              /\ r <= Len(rows)
              /\ EditKey(P0, rows[r], col) \in DOMAIN P0.edits
              /\ preview_table' = UndoCellEdit(P0, rows[r][HashCol], col, r)
    /\ UNCHANGED <<main_window, filter_panel, load_threads, cache_timers, exporter_dataframe,
                 cell_text, engine, message_box, export_run>>

\* the "Undo All" button: PreviewTable.clear_edits
OnClearEdits ==
    /\ DOMAIN preview_table.edits # {}
    /\ LET P1 == ClearEdits(preview_table)
       IN  \E dd \in GetDisplayData(P1) :
               preview_table' = UpdateTable(CacheDisplayData(P1, dd), dd)
    /\ UNCHANGED <<main_window, filter_panel, load_threads, cache_timers, exporter_dataframe,
                 cell_text, engine, message_box, export_run>>

\* the refresh every paging handler ends with
Refresh(P1) ==
    \E dd \in GetDisplayData(P1) : preview_table' = UpdateTable(CacheDisplayData(P1, dd), dd)

\* PreviewTable._next_page (the button is enabled below the last page)
OnNextPage ==
    /\ ~IsNone(preview_table.dataframe)
    /\ (preview_table.current_page + 1) * preview_table.rows_per_page
          < FrameLen(preview_table.dataframe)
    /\ Refresh([preview_table EXCEPT !.current_page = @ + 1])
    /\ UNCHANGED <<main_window, filter_panel, load_threads, cache_timers, exporter_dataframe,
                 cell_text, engine, message_box, export_run>>

\* PreviewTable._previous_page
OnPreviousPage ==
    /\ ~IsNone(preview_table.dataframe)
    /\ preview_table.current_page > 0
    /\ Refresh([preview_table EXCEPT !.current_page = Max(0, @ - 1)])
    /\ UNCHANGED <<main_window, filter_panel, load_threads, cache_timers, exporter_dataframe,
                 cell_text, engine, message_box, export_run>>

\* PreviewTable._on_page_selected: the user picks a page in the page dropdown,
\* which _update_page_dropdown fills with the pages of the displayed table
OnPageSelected(index) ==
    /\ ~IsNone(preview_table.dataframe)
    /\ index >= 0
    /\ index * preview_table.rows_per_page < FrameLen(preview_table.dataframe)
    /\ index # preview_table.current_page
    /\ Refresh([preview_table EXCEPT !.current_page = index])
    /\ UNCHANGED <<main_window, filter_panel, load_threads, cache_timers, exporter_dataframe,
                 cell_text, engine, message_box, export_run>>

\* PreviewTable._on_rows_per_page_changed
OnRowsPerPageChanged(value) ==
    /\ value # preview_table.rows_per_page
    /\ Refresh([preview_table EXCEPT !.rows_per_page = value, !.current_page = 0])
    /\ UNCHANGED <<main_window, filter_panel, load_threads, cache_timers, exporter_dataframe,
                 cell_text, engine, message_box, export_run>>

\* MainWindow._export_data
OnExportData ==
    /\ main_window.filter_engine # NoneEngine
    /\ ~IsNone(main_window.current_dataframe)
    /\ exporter_dataframe' = ExportFrame(main_window, preview_table)
    /\ UNCHANGED <<preview_table, main_window, filter_panel, load_threads, cache_timers,
                 cell_text, engine, message_box, export_run>>

\* ExportThread.run finishes: the exporter and its dataframe are dropped
OnExportFinished(success) ==
    /\ ~IsNone(exporter_dataframe)
    /\ exporter_dataframe' = NoneDF
    /\ message_box' = IF success THEN "Export Successful" ELSE "Export Failed"
    /\ UNCHANGED <<preview_table, main_window, filter_panel, load_threads, cache_timers,
                 cell_text, engine, export_run>>

\* _on_load_error as it would be if it dropped the overlay
OnLoadErrorDropsEdits(i) ==
    /\ i \in 1..Len(load_threads)
    /\ load_threads' = SubSeq(load_threads, 1, i - 1)
                           \o SubSeq(load_threads, i + 1, Len(load_threads))
    /\ message_box' = "Error"
    /\ preview_table' = [preview_table EXCEPT !.edits = EmptyMap]
    /\ UNCHANGED <<main_window, filter_panel, cache_timers,
                   exporter_dataframe, cell_text, engine, export_run>>

\* LoadDataThread.run ends in its except branch and MainWindow._on_load_error
\* runs
OnLoadError(i) ==
    /\ i \in 1..Len(load_threads)
    /\ load_threads' = SubSeq(load_threads, 1, i - 1)
                           \o SubSeq(load_threads, i + 1, Len(load_threads))
    /\ message_box' = "Error"
    /\ UNCHANGED <<preview_table, main_window, filter_panel, cache_timers,
                   exporter_dataframe, cell_text, engine, export_run>>

\* the user closes the message box
OnMessageBoxClosed ==
    /\ message_box # NoneStr
    /\ message_box' = NoneStr
    /\ UNCHANGED <<preview_table, main_window, filter_panel, load_threads, cache_timers,
                   exporter_dataframe, cell_text, engine, export_run>>

\* the handlers of the preview table, the filter panel and the export button
\* (every worksheet of the workbooks fits on one page, so the paging buttons
\* are disabled)
PreviewNext ==
    \/ \E f \in FilterChoices, logic \in LogicChoices : OnFiltersApplied(f, logic)
    \/ OnClearAllFilters
    \/ \E c \in Range(Columns) : OnHeaderClicked(c)
    \/ \E r \in 1..MaxRows, c \in EditColumns, t \in EditTexts : OnItemChanged(r, c, t)
    \/ \E r \in 1..MaxRows, c \in Range(Columns) : OnUndoCellEdit(r, c)
    \/ OnClearEdits
    \/ \E v \in RowsPerPageChoices : OnRowsPerPageChanged(v)
    \/ OnExportData

\* a workbook of one worksheet is opened and worked on; an export runs to its
\* end before the next event is handled (the ExportThread works on the
\* exporter's own frame), and a message box is closed before the next event
\* is handled (what its handler does after the box is closed changes nothing)
Next ==
    \/ \E success \in BOOLEAN : OnExportFinished(success)
    \/ OnMessageBoxClosed
    \/ /\ IsNone(exporter_dataframe)
       /\ message_box = NoneStr
       /\ \/ \E f \in SingleSheetFiles, s \in AllSheetNames : OpenFile(f, s)
          \/ \E i \in 1..MaxInFlight : OnDataLoaded(i)
          \/ \E i \in 1..MaxInFlight : OnLoadError(i)
          \/ PreviewNext

Spec == Init /\ [][Next]_vars

\* a workbook of two worksheets: sheets are switched, cells edited, columns
\* sorted and the table exported
NextBook ==
    \/ \E success \in BOOLEAN : OnExportFinished(success)
    \/ OnMessageBoxClosed
    \/ /\ IsNone(exporter_dataframe)
       /\ message_box = NoneStr
       /\ \/ \E f \in MultiSheetFiles, s \in AllSheetNames : OpenFile(f, s)
          \/ \E i \in 1..MaxInFlight : OnDataLoaded(i)
          \/ \E i \in 1..MaxInFlight : OnLoadError(i)
          \/ OnCacheNextSheet
          \/ \E s \in AllSheetNames : OnSheetChanged(s)
          \/ \E c \in Range(Columns) : OnHeaderClicked(c)
          \/ \E r \in 1..MaxRows, c \in EditColumns, t \in BookEditTexts : OnItemChanged(r, c, t)
          \/ OnExportData

SpecBook == Init /\ [][NextBook]_vars

\* a worksheet of more rows than the smallest page: cells of its first rows and
\* of its last row are edited, pages are turned and the page size is changed
PagedEditRows == {1, 2, Len(SheetRows("Long"))}
PagingStep ==
    \/ OnNextPage
    \/ OnPreviousPage
    \/ \E i \in 0..1 : OnPageSelected(i)
    \/ \E v \in RowsPerPageChoices : OnRowsPerPageChanged(v)
NextPages ==
    \/ OnMessageBoxClosed
    \/ /\ message_box = NoneStr
       /\ \/ \E f \in PagedFiles, s \in PagedSheetNames : OpenFile(f, s)
          \/ \E i \in 1..MaxInFlight : OnDataLoaded(i)
          \/ \E i \in 1..MaxInFlight : OnLoadError(i)
          \/ \E r \in PagedEditRows, c \in EditColumns, t \in EditTexts :
                OnItemChanged(r, c, t)
          \/ PagingStep

SpecPages == Init /\ [][NextPages]_vars

\* a worksheet of two pages with pages turned, the page size changed, the Age
\* column sorted, filters applied (one keeps more than a page of rows, one less)
\* and cleared
PagingFilterChoices ==
    {<<Rule("Age", "<", "35")>>,
     <<Rule("Name", "equals", "Bob")>>}
NextPaging ==
    \/ OnMessageBoxClosed
    \/ /\ message_box = NoneStr
       /\ \/ OpenFile("ranked.xlsx", "Ranked")
          \/ \E i \in 1..MaxInFlight : OnDataLoaded(i)
          \/ \E i \in 1..MaxInFlight : OnLoadError(i)
          \/ PagingStep
          \/ OnHeaderClicked("Age")
          \/ \E f \in PagingFilterChoices, l \in LogicChoices : OnFiltersApplied(f, l)
          \/ OnClearAllFilters

SpecPaging == Init /\ [][NextPaging]_vars

\* a worksheet with a float column and one with an integer column: cells of
\* every column are edited to a numeral, to the empty text and to a text that
\* is no number, and the table is exported
CoerceFiles == TypedFiles
CoerceSheetNames == {"Rates", "Gaps"}
CoerceTexts == {"31", "", "Al"}
NextCoerce ==
    \/ \E success \in BOOLEAN : OnExportFinished(success)
    \/ OnMessageBoxClosed
    \/ /\ IsNone(exporter_dataframe)
       /\ message_box = NoneStr
       /\ \/ \E f \in CoerceFiles, s \in CoerceSheetNames : OpenFile(f, s)
          \/ \E i \in 1..MaxInFlight : OnDataLoaded(i)
          \/ \E i \in 1..MaxInFlight : OnLoadError(i)
          \/ \E r \in 1..MaxRows, c \in Range(Columns), t \in CoerceTexts :
                OnItemChanged(r, c, t)
          \/ OnExportData

SpecCoerce == Init /\ [][NextCoerce]_vars

\* a worksheet with a boolean column: its cells are edited to the texts of the
\* truthy-string heuristic, to another text and to the empty text, and the
\* table is exported
FlagSheetNames == {"Flags"}
FlagTexts == {"true", "Yes", "1", "no", ""}
NextFlags ==
    \/ \E success \in BOOLEAN : OnExportFinished(success)
    \/ OnMessageBoxClosed
    \/ /\ IsNone(exporter_dataframe)
       /\ message_box = NoneStr
       /\ \/ \E f \in FlagFiles, s \in FlagSheetNames : OpenFile(f, s)
          \/ \E i \in 1..MaxInFlight : OnDataLoaded(i)
          \/ \E i \in 1..MaxInFlight : OnLoadError(i)
          \/ \E r \in 1..MaxRows, t \in FlagTexts : OnItemChanged(r, "Age", t)
          \/ OnExportData

SpecFlags == Init /\ [][NextFlags]_vars

\* the filter manager is on screen
PopupShown ==
    filter_panel.popup_window # NonePopup /\ filter_panel.popup_window.shown

\* SimpleFilterPanel._open_filter_manager: a new PopupFilterWindow is built
\* and shown, and its showEvent runs _check_for_edits
OnOpenFilterManager ==
    /\ ~IsNone(main_window.current_dataframe)
    /\ ~PopupShown
    /\ filter_panel' = [filter_panel EXCEPT !.popup_window =
            CheckForEdits([NewPopupFilterWindow EXCEPT !.shown = TRUE], preview_table)]
    /\ UNCHANGED <<preview_table, main_window, load_threads, cache_timers,
                   exporter_dataframe, cell_text, engine, message_box, export_run>>

\* PopupFilterWindow._apply_filters with a filled rule list: filters_applied
\* reaches the panel and the main window, the baseline is stored, the
\* information box is shown and the window closes
OnPopupApplyFilters(filters, logic) ==
    /\ PopupShown
    /\ LET R == FiltersApplied(main_window, preview_table, filters, logic)
       IN  /\ main_window' = R.main
           /\ preview_table' = R.preview
           /\ filter_panel' =
                 [current_filters |-> filters,
                  current_logic |-> logic,
                  popup_window |-> [filter_panel.popup_window EXCEPT
                      !.edit_version_at_filter_time = R.preview.edit_version,
                      !.shown = FALSE]]
    /\ message_box' = "Filters Applied"
    /\ UNCHANGED <<load_threads, cache_timers, exporter_dataframe, cell_text, engine,
                   export_run>>

\* PopupFilterWindow._clear_all_filters
OnPopupClearAllFilters ==
    /\ PopupShown
    /\ LET R == FiltersApplied(main_window, preview_table, <<>>, "AND")
       IN  /\ main_window' = R.main
           /\ preview_table' = R.preview
    /\ filter_panel' =
          [current_filters |-> <<>>,
           current_logic |-> "AND",
           popup_window |-> [filter_panel.popup_window EXCEPT
               !.edit_version_at_filter_time = 0]]
    /\ UNCHANGED <<load_threads, cache_timers, exporter_dataframe, cell_text, engine,
                   message_box, export_run>>

\* the window is closed without Apply
OnPopupClosed ==
    /\ PopupShown
    /\ filter_panel' = [filter_panel EXCEPT !.popup_window.shown = FALSE]
    /\ UNCHANGED <<preview_table, main_window, load_threads, cache_timers,
                   exporter_dataframe, cell_text, engine, message_box, export_run>>

\* a one-sheet workbook: cells are edited, the filter manager is opened, filters
\* are applied and cleared in it; the manager is modal, and once opened over
\* active filters it is left by Apply or after Clear All
PopupFiles == {"people.xlsx"}
PopupSheetNames == {"People"}
NextPopup ==
    \/ OnMessageBoxClosed
    \/ /\ message_box = NoneStr
       /\ \/ \E i \in 1..MaxInFlight : OnDataLoaded(i)
          \/ \E i \in 1..MaxInFlight : OnLoadError(i)
          \/ /\ PopupShown
             /\ \/ \E f \in FilterChoices, l \in LogicChoices : OnPopupApplyFilters(f, l)
                \/ OnPopupClearAllFilters
                \/ filter_panel.current_filters = <<>> /\ OnPopupClosed
          \/ /\ ~PopupShown
             /\ \/ \E f \in PopupFiles, s \in PopupSheetNames : OpenFile(f, s)
                \/ \E r \in 1..MaxRows, c \in EditColumns, t \in EditTexts :
                      OnItemChanged(r, c, t)
                \/ OnClearAllFilters
                \/ OnOpenFilterManager

SpecPopup == Init /\ [][NextPopup]_vars

\* the sanitizers applied to a text, any number of times in any order
InitSanitize ==
    /\ preview_table = InitPreviewTable
    /\ main_window = InitMainWindow
    /\ filter_panel = InitFilterPanel
    /\ load_threads = <<>>
    /\ cache_timers = 0
    /\ exporter_dataframe = NoneDF
    /\ cell_text \in [value : DirtyTexts, by : {"none"}]
    /\ engine = NoneEngine
    /\ message_box = NoneStr
    /\ export_run = NoExportRun

\* PreviewTable._sanitize_cell_value(value)
OnSanitizeCellValue ==
    /\ cell_text' = [value |-> SanitizeCellText(cell_text.value), by |-> "cell"]
    /\ UNCHANGED <<preview_table, main_window, filter_panel, load_threads, cache_timers,
                   exporter_dataframe, engine, message_box, export_run>>

\* ExcelReader._sanitize_dataframe(df), for one text of a string column
OnSanitizeDataframe ==
    /\ cell_text' = [value |-> SanitizeDataframeText(cell_text.value), by |-> "load"]
    /\ UNCHANGED <<preview_table, main_window, filter_panel, load_threads, cache_timers,
                   exporter_dataframe, engine, message_box, export_run>>

NextSanitize == OnSanitizeCellValue \/ OnSanitizeDataframe

SpecSanitize == InitSanitize /\ [][NextSanitize]_vars

\* ExcelExporter.export and export_to_csv called on an exporter, step by step:
\* the calls into the file system and into xlsxwriter succeed or raise; the
\* exporter holds no dataframe, a table as read, or one without the hash column
ExportSheets == {"People", "Dups", "Gaps", "Rates", "Long"}

\* progress_callback(percentage, message)
Report(run, percentage) == [run EXCEPT !.progress = Append(@, percentage)]

\* an except branch of the exporter: progress 0 is reported, False returned
ExportFails(run) == [Report(run, 0) EXCEPT !.pc = "done", !.result = "False"]

InitExport ==
    /\ preview_table = InitPreviewTable
    /\ main_window = InitMainWindow
    /\ filter_panel = InitFilterPanel
    /\ load_threads = <<>>
    /\ cache_timers = 0
    /\ exporter_dataframe \in {NoneDF} \cup {ReadSheet(s) : s \in ExportSheets}
                                       \cup {DropColumn(ReadSheet(s), HashCol) :
                                                s \in ExportSheets}
    /\ cell_text = [value |-> <<>>, by |-> "none"]
    /\ engine = NoneEngine
    /\ message_box = NoneStr
    /\ export_run = NoExportRun

\* export / export_to_csv is called: without a dataframe it reports 0 and
\* returns False, else it reports its first progress
OnExportCalled(format) ==
    /\ export_run.pc = "idle"
    /\ export_run' =
          IF IsNone(exporter_dataframe)
          THEN ExportFails([export_run EXCEPT !.format = format])
          ELSE [Report(export_run, IF format = "excel" THEN 5 ELSE 10)
                   EXCEPT !.format = format, !.pc = "mkdir"]
    /\ UNCHANGED <<preview_table, main_window, filter_panel, load_threads, cache_timers,
                   exporter_dataframe, cell_text, engine, message_box>>

\* output_path.parent.mkdir(parents=True, exist_ok=True)
OnExportMkdir(ok) ==
    /\ export_run.pc = "mkdir"
    /\ export_run' =
          IF ~ok THEN ExportFails(export_run)
          ELSE IF export_run.format = "excel"
          THEN [Report(export_run, 10) EXCEPT !.pc = "workbook"]
          ELSE [Report(export_run, 30) EXCEPT !.pc = "write_csv"]
    /\ UNCHANGED <<preview_table, main_window, filter_panel, load_threads, cache_timers,
                   exporter_dataframe, cell_text, engine, message_box>>

\* xlsxwriter.Workbook(...), add_worksheet, the formats and the header row
OnExportWorkbook(ok) ==
    /\ export_run.pc = "workbook"
    /\ export_run' =
          IF ~ok THEN ExportFails(export_run)
          ELSE [Report(Report(Report(export_run, 15), 20), 25) EXCEPT !.pc = "rows"]
    /\ UNCHANGED <<preview_table, main_window, filter_panel, load_threads, cache_timers,
                   exporter_dataframe, cell_text, engine, message_box>>

\* the data rows (fewer than 100, so no progress in between), the column
\* widths and the frozen header
OnExportRows(ok) ==
    /\ export_run.pc = "rows"
    /\ export_run' =
          IF ~ok THEN ExportFails(export_run)
          ELSE [Report(Report(export_run, 95), 98) EXCEPT !.pc = "close"]
    /\ UNCHANGED <<preview_table, main_window, filter_panel, load_threads, cache_timers,
                   exporter_dataframe, cell_text, engine, message_box>>

\* workbook.close() writes the file; progress 100 is reported after it
OnExportClose(ok) ==
    /\ export_run.pc = "close"
    /\ export_run' =
          IF ~ok THEN ExportFails(export_run)
          ELSE [Report(export_run, 100) EXCEPT !.file_written = TRUE, !.pc = "stat"]
    /\ UNCHANGED <<preview_table, main_window, filter_panel, load_threads, cache_timers,
                   exporter_dataframe, cell_text, engine, message_box>>

\* df.write_csv() and the open / write of the file; progress 100 is reported
\* after it
OnExportWriteCsv(ok) ==
    /\ export_run.pc = "write_csv"
    /\ export_run' =
          IF ~ok THEN ExportFails(export_run)
          ELSE [Report(export_run, 100) EXCEPT !.file_written = TRUE, !.pc = "stat"]
    /\ UNCHANGED <<preview_table, main_window, filter_panel, load_threads, cache_timers,
                   exporter_dataframe, cell_text, engine, message_box>>

\* output_path.stat() for the log line, then return True; when stat raises,
\* the outer except branch runs
OnExportStat(ok) ==
    /\ export_run.pc = "stat"
    /\ export_run' =
          IF ~ok THEN ExportFails(export_run)
          ELSE [export_run EXCEPT !.pc = "done", !.result = "True"]
    /\ UNCHANGED <<preview_table, main_window, filter_panel, load_threads, cache_timers,
                   exporter_dataframe, cell_text, engine, message_box>>

NextExport ==
    \/ \E format \in {"excel", "csv"} : OnExportCalled(format)
    \/ \E ok \in BOOLEAN : OnExportMkdir(ok)
    \/ \E ok \in BOOLEAN : OnExportWorkbook(ok)
    \/ \E ok \in BOOLEAN : OnExportRows(ok)
    \/ \E ok \in BOOLEAN : OnExportClose(ok)
    \/ \E ok \in BOOLEAN : OnExportWriteCsv(ok)
    \/ \E ok \in BOOLEAN : OnExportStat(ok)

SpecExport == InitExport /\ [][NextExport]_vars

\* ExcelExporter.export writing the worksheet, chunk by chunk: export_run holds
\* the chunk size, the start of the next chunk and the calls of
\* worksheet.write(row, col, value) made so far
MaxChunkSize == 4

\* chunk_size = max(1000, min(50000, int(total_rows * 0.1))) when none is given
AutoChunkSize(total_rows) == Max(1000, Min(50000, total_rows \div 10))

\* df = self.dataframe.drop("_row_hash") if the column is there
ExportedFrame(df) == IF HasColumn(df, HashCol) THEN DropColumn(df, HashCol) ELSE df

\* display_value = "" if value is None else value
DisplayValue(value) == IF Tag(value) = "null" THEN StrV("") ELSE value

\* the writes of one data row: for col_idx, value in enumerate(row)
RowWrites(row_idx, df, row) ==
    [j \in 1..Len(df.columns) |-> <<row_idx, j - 1, DisplayValue(row[df.columns[j]])>>]

\* a chunk loop that numbers the rows of every chunk from 1
RECURSIVE ChunkWritesFromOne(_, _, _)
ChunkWritesFromOne(df, start_idx, n) ==
    IF n = 0 THEN <<>>
    ELSE ChunkWritesFromOne(df, start_idx, n - 1) \o RowWrites(n, df, df.rows[start_idx + n])

\* for row_idx, row in enumerate(df.slice(start_idx, n).iter_rows(),
\* start=start_idx + 1): the writes of n rows; the loop without chunks is the
\* same with start_idx = 0 and n = total_rows
RECURSIVE ChunkWrites(_, _, _)
ChunkWrites(df, start_idx, n) ==
    IF n = 0 THEN <<>>
    ELSE ChunkWrites(df, start_idx, n - 1)
            \o RowWrites(start_idx + n, df, df.rows[start_idx + n])

InitChunks ==
    /\ preview_table = InitPreviewTable
    /\ main_window = InitMainWindow
    /\ filter_panel = InitFilterPanel
    /\ load_threads = <<>>
    /\ cache_timers = 0
    /\ exporter_dataframe \in {ReadSheet(s) : s \in ExportSheets}
                                 \cup {DropColumn(ReadSheet(s), HashCol) : s \in ExportSheets}
    /\ cell_text = [value |-> <<>>, by |-> "none"]
    /\ engine = NoneEngine
    /\ message_box = NoneStr
    /\ export_run = [pc |-> "headers", chunk_size |-> 0, start_idx |-> 0, written |-> <<>>]

\* the chunk size is settled and the header row is written
OnExportHeaders(chunk_size) ==
    /\ export_run.pc = "headers"
    /\ LET df == ExportedFrame(exporter_dataframe)
       IN  export_run' = [export_run EXCEPT
              !.pc = IF FrameLen(df) > chunk_size THEN "chunks" ELSE "rows",
              !.chunk_size = chunk_size,
              !.written = [j \in 1..Len(df.columns) |-> <<0, j - 1, StrV(df.columns[j])>>]]
    /\ UNCHANGED <<preview_table, main_window, filter_panel, load_threads, cache_timers,
                   exporter_dataframe, cell_text, engine, message_box>>

\* one round of for start_idx in range(0, total_rows, chunk_size)
OnExportChunk ==
    /\ export_run.pc = "chunks"
    /\ LET df == ExportedFrame(exporter_dataframe)
           start_idx == export_run.start_idx
           end_idx == Min(start_idx + export_run.chunk_size, FrameLen(df))
       IN  export_run' = [export_run EXCEPT
              !.written = @ \o ChunkWrites(df, start_idx, end_idx - start_idx),
              !.start_idx = start_idx + export_run.chunk_size,
              !.pc = IF start_idx + export_run.chunk_size < FrameLen(df)
                     THEN "chunks" ELSE "done"]
    /\ UNCHANGED <<preview_table, main_window, filter_panel, load_threads, cache_timers,
                   exporter_dataframe, cell_text, engine, message_box>>

\* the loop over df.iter_rows() of a table of at most chunk_size rows
OnExportAllRows ==
    /\ export_run.pc = "rows"
    /\ LET df == ExportedFrame(exporter_dataframe)
       IN  export_run' = [export_run EXCEPT
              !.written = @ \o ChunkWrites(df, 0, FrameLen(df)),
              !.pc = "done"]
    /\ UNCHANGED <<preview_table, main_window, filter_panel, load_threads, cache_timers,
                   exporter_dataframe, cell_text, engine, message_box>>

NextChunks ==
    \/ \E chunk_size \in 1..MaxChunkSize : OnExportHeaders(chunk_size)
    \/ OnExportHeaders(AutoChunkSize(FrameLen(ExportedFrame(exporter_dataframe))))
    \/ OnExportChunk
    \/ OnExportAllRows

SpecChunks == InitChunks /\ [][NextChunks]_vars

\* two workbooks with the same sheet names are opened one after the other,
\* in any order and any number of times, and their sheets are switched
NextFiles ==
    \/ OnMessageBoxClosed
    \/ /\ message_box = NoneStr
       /\ \/ \E f \in {"book.xlsx", "swap.xlsx"}, s \in AllSheetNames :
                f # main_window.current_filepath /\ OnOpenFile(f, s)
          \/ \E i \in 1..MaxInFlight : OnDataLoaded(i)
          \/ \E i \in 1..MaxInFlight : OnLoadError(i)
          \/ OnCacheNextSheet
          \/ \E s \in AllSheetNames : OnSheetChanged(s)

SpecFiles == Init /\ [][NextFiles]_vars

\* a workbook of three worksheets, one of which cannot be read: sheets are
\* switched while the cache timers run; timers and load threads are served by
\* the event loop also while a message box is open, and a timer that is due
\* fires: the cache_next_sheet step is weakly fair, WF_vars(OnCacheNextSheet),
\* written with its enabling condition as a state predicate
TornSheetNames == Range(SheetNames("torn.xlsx"))
CacheStepEnabled ==
    /\ cache_timers > 0
    /\ LET W == CacheNextSheet(World, main_window.available_sheets)
       IN  Len(W.loads) <= MaxInFlight /\ W.timers <= MaxTimers
OnThreadFinished == \E i \in 1..MaxInFlight : OnDataLoaded(i) \/ OnLoadError(i)
NextCaching ==
    \/ OnMessageBoxClosed
    \/ OnCacheNextSheet
    \/ OnThreadFinished
    \/ /\ message_box = NoneStr
       /\ \/ \E s \in TornSheetNames : OpenFile("torn.xlsx", s)
          \/ \E s \in TornSheetNames : OnSheetChanged(s)

SpecCaching ==
    /\ Init
    /\ [][NextCaching]_vars
    /\ ([]<>~CacheStepEnabled \/ []<><<OnCacheNextSheet>>_vars)

\* a FilterEngine built on a table as read and used through its methods, in
\* any order: rules that select rows, a rule on a missing column, one with an
\* unknown operator, one whose bound is no number, and a numeric comparison on
\* the text column
EngineSheets == {"People", "Gaps"}
RuleChoices ==
    {Rule("Age", "gt", "26"), Rule("Name", "equals", "Bob"), Rule("Age", "lte", "30"),
     Rule("Age", "is_null", ""), Rule("City", "equals", "Bob"), Rule("Age", "like", "30"),
     Rule("Age", "gt", "Al"), Rule("Name", "gt", "26")}
EngineLogicChoices == {"AND", "OR"}
MaxRules == 2

InitEngine ==
    /\ preview_table = InitPreviewTable
    /\ main_window = InitMainWindow
    /\ filter_panel = InitFilterPanel
    /\ load_threads = <<>>
    /\ cache_timers = 0
    /\ exporter_dataframe = NoneDF
    /\ cell_text = [value |-> <<>>, by |-> "none"]
    /\ engine \in {NewFilterEngine(ReadSheet(s)) : s \in EngineSheets}
    /\ message_box = NoneStr
    /\ export_run = NoExportRun

\* engine.add_filter(rule)
OnAddFilter(rule) ==
    /\ Len(engine.applied_filters) < MaxRules
    /\ engine' = AddFilter(engine, rule)
    /\ UNCHANGED <<preview_table, main_window, filter_panel, load_threads, cache_timers,
                   exporter_dataframe, cell_text, message_box, export_run>>

\* engine.apply_filters(logic)
OnApplyFilters(logic) ==
    /\ engine' = ApplyFilters(engine, logic)
    /\ UNCHANGED <<preview_table, main_window, filter_panel, load_threads, cache_timers,
                   exporter_dataframe, cell_text, message_box, export_run>>

\* engine.clear_filters()
OnClearFilters ==
    /\ engine' = ClearFilters(engine)
    /\ UNCHANGED <<preview_table, main_window, filter_panel, load_threads, cache_timers,
                   exporter_dataframe, cell_text, message_box, export_run>>

NextEngine ==
    \/ \E rule \in RuleChoices : OnAddFilter(rule)
    \/ \E logic \in EngineLogicChoices : OnApplyFilters(logic)
    \/ OnClearFilters

SpecEngine == InitEngine /\ [][NextEngine]_vars


\* ------------------------------------------------------------- properties
\* the rows of the page as last rendered, and the text a cell of such a row is
\* to show: its overlay value, else its sanitized source value
DisplayedRows(P) ==
    IF IsNone(P.display_data_cache) THEN <<>>
    ELSE PageRows(P, P.display_data_cache, P.current_page)
DisplayedValue(P, row, c) ==
    IF EditKey(P, row, c) \in DOMAIN P.edits THEN P.edits[EditKey(P, row, c)]
    ELSE SanitizeCellValue(row[c])

\* the order of two displayed texts: numerals by value, other texts as strings
TextLeq(a, b) ==
    IF IsNumeral(a) /\ IsNumeral(b) THEN TextToInt(a) <= TextToInt(b)
    ELSE TextRank(a) <= TextRank(b)

\* the cached display table is in the order of its displayed values in the sort
\* column and direction
InDisplayOrder(P) ==
    (P.sort_column # NoneStr /\ ~IsNone(P.display_data_cache)) =>
        LET rows == P.display_data_cache.rows
            V(i) == DisplayedValue(P, rows[i], P.sort_column)
        IN  \A i \in 1..(Len(rows) - 1) :
                IF P.sort_ascending THEN TextLeq(V(i), V(i + 1)) ELSE TextLeq(V(i + 1), V(i))

FilterStep ==
    \/ \E f \in FilterChoices, logic \in LogicChoices : OnFiltersApplied(f, logic)
    \/ OnClearAllFilters

\* C1: in every reachable state each overlay entry has a snapshot recorded for
\* its key and its value differs from that snapshot; an edit whose text equals
\* the snapshot therefore leaves no overlay entry for the key.
OverlayDiffersFromSnapshot ==
    \A k \in DOMAIN preview_table.edits :
        /\ k \in DOMAIN preview_table.original_values
        /\ preview_table.edits[k] # preview_table.original_values[k]

\* an overlay entry is held after more edits were stored than entries are left
\* (a cell was edited again, reverted or undone)
OverlayAfterReedits ==
    /\ DOMAIN preview_table.edits # {}
    /\ preview_table.edit_version > Cardinality(DOMAIN preview_table.edits)

\* C2: edit survives filter. Applying or clearing filters leaves the overlay as
\* it was, and every cell of the table displayed afterwards whose row and column
\* have an overlay entry shows the overlay value.
EditSurvivesFilter ==
    [][FilterStep =>
        /\ preview_table'.edits = preview_table.edits
        /\ Len(preview_table'.items) = Len(DisplayedRows(preview_table'))
        /\ \A r \in 1..Len(preview_table'.items) :
             \A c \in DOMAIN preview_table'.items[r] :
                preview_table'.items[r][c] =
                    DisplayedValue(preview_table', DisplayedRows(preview_table')[r], c)]_vars

\* a filter is applied, an edited row is displayed with its overlay value, and
\* the overlay holds the edit of a row the filter leaves out
FilteredViewShowsEdit ==
    /\ filter_panel.current_filters # <<>>
    /\ \E r \in 1..Len(preview_table.items) : \E c \in DOMAIN preview_table.items[r] :
          /\ r <= Len(DisplayedRows(preview_table))
          /\ EditKey(preview_table, DisplayedRows(preview_table)[r], c)
                \in DOMAIN preview_table.edits
          /\ preview_table.items[r][c] =
                preview_table.edits[EditKey(preview_table, DisplayedRows(preview_table)[r], c)]
    /\ \E k \in DOMAIN preview_table.edits :
          HashToIndex(preview_table.dataframe, k[2]) = 0

\* C3: edit survives sort. After a click on a column header the display table
\* is in the order of the displayed values of that column (the overlay value
\* of an edited cell, not its source value), in the direction chosen.
SortPlacesEditedRows ==
    [][(\E c \in Range(Columns) : OnHeaderClicked(c)) => InDisplayOrder(preview_table')]_vars

\* C4: an item change in the current sort column leaves the display cache
\* invalid (or already re-sorted with the edited value); an item change in
\* another column leaves the cache valid and as it was.
EditInSortColumnInvalidates ==
    [][\A r \in 1..MaxRows, c \in EditColumns, t \in EditTexts :
          OnItemChanged(r, c, t) =>
              IF c = preview_table.sort_column
              THEN \/ ~preview_table'.display_data_cache_valid
                   \/ InDisplayOrder(preview_table')
              ELSE /\ preview_table'.display_data_cache_valid
                   /\ preview_table'.display_data_cache = preview_table.display_data_cache]_vars

\* C5: whenever the display cache is marked valid, the cached table holds the
\* rows of the active table, in the table's own order when no sort column is
\* set and else ordered by the displayed (overlay) values of the sort column in
\* the sort direction.
CacheIsCurrentOrder ==
    LET P == preview_table
    IN  (P.display_data_cache_valid /\ ~IsNone(P.dataframe)) =>
            /\ ~IsNone(P.display_data_cache)
            /\ \E p \in Perms(FrameLen(P.dataframe)) :
                  P.display_data_cache.rows =
                      [i \in 1..FrameLen(P.dataframe) |-> P.dataframe.rows[p[i]]]
            /\ IF P.sort_column = NoneStr THEN P.display_data_cache = P.dataframe
               ELSE InDisplayOrder(P)

\* C6: with the filters cleared in the filter panel and Bob's Age edited to 31
\* as the only edit of people.xlsx, the preview is on the unfiltered table and
\* an export holds every source row with the edit: Age is 25, 31, 35.
ClearedFilterExportsAllRows ==
    (/\ main_window.current_filepath = "people.xlsx"
     /\ ~IsNone(exporter_dataframe)
     /\ filter_panel.current_filters = <<>>
     /\ \E k \in DOMAIN preview_table.edits :
           /\ DOMAIN preview_table.edits = {k}
           /\ k[2] = HashRow(RawRow("Bob", 30))
           /\ k[3] = "Age"
           /\ preview_table.edits[k] = "31")
    => /\ preview_table.dataframe = main_window.current_dataframe
       /\ ColumnValues(ExportedTable(exporter_dataframe), "Age")
             = <<IntV(25), IntV(31), IntV(35)>>

\* C7: get_edited_dataframe(use_current_view=False) returns the rows of the
\* table as loaded, also while the preview is filtered, and
\* get_edited_dataframe(use_current_view=True) the rows of the filtered table.
FullSourcePatchesLoadedTable ==
    ~IsNone(preview_table.dataframe) =>
        /\ ColumnValues(GetEditedDataframe(preview_table, FALSE), HashCol)
              = ColumnValues(main_window.current_dataframe, HashCol)
        /\ ColumnValues(GetEditedDataframe(preview_table, TRUE), HashCol)
              = ColumnValues(preview_table.dataframe, HashCol)

\* C8: export round trip. With edits recorded and no filter ever applied, the
\* table handed to the exporter has the rows of the loaded table, each cell
\* holding the overlay value of its row and column if there is one and its
\* source value otherwise.
FullSourceExportRoundTrip ==
    (/\ ~IsNone(exporter_dataframe)
     /\ main_window.filter_engine.applied_filters = <<>>
     /\ DOMAIN preview_table.edits # {})
    => LET src == main_window.current_dataframe
       IN  /\ FrameLen(exporter_dataframe) = FrameLen(src)
           /\ \A i \in 1..FrameLen(src) : \A c \in Range(Columns) :
                 SanitizeCellValue(exporter_dataframe.rows[i][c])
                     = DisplayedValue(preview_table, src.rows[i], c)

\* C9: an edit recorded while one worksheet is active is not displayed on
\* another: a worksheet displayed for the first time shows its source values
\* in every cell.
EditsStayOnTheirSheet ==
    [][\A s \in AllSheetNames :
          (/\ s \notin DOMAIN main_window.sheet_cache
           /\ s \in DOMAIN main_window'.sheet_cache
           /\ preview_table'.dataframe = ReadSheet(s))
          => \A r \in 1..Len(preview_table'.items) :
                \A c \in DOMAIN preview_table'.items[r] :
                   preview_table'.items[r][c]
                       = SanitizeCellValue(DisplayedRows(preview_table')[r][c])]_vars

UndoAllResetsVersion ==
    [][OnClearEdits => preview_table'.edit_version = 0]_vars

\* the keys of the cells on the page as last rendered
DisplayedKeys(P) ==
    {EditKey(P, DisplayedRows(P)[r], c) :
        r \in 1..Len(DisplayedRows(P)), c \in Range(Columns)}

\* C12: undo_all (clear_edits) empties the overlay and the snapshot map: after
\* it the overlay has no entry, the snapshot map holds nothing but the sanitized
\* source values of the cells rendered by the refresh, and every displayed cell
\* shows its sanitized source value.
UndoAllClearsOverlay ==
    [][OnClearEdits =>
        LET Q == preview_table'
        IN  /\ DOMAIN Q.edits = {}
            /\ DOMAIN Q.original_values = DisplayedKeys(Q)
            /\ Len(Q.items) = Len(DisplayedRows(Q))
            /\ \A r \in 1..Len(Q.items) : \A c \in Range(Columns) :
                  /\ Q.items[r][c] = SanitizeCellValue(DisplayedRows(Q)[r][c])
                  /\ Q.original_values[EditKey(Q, DisplayedRows(Q)[r], c)]
                        = SanitizeCellValue(DisplayedRows(Q)[r][c])]_vars

\* edits were stored, the overlay is empty, and the snapshot map of people.xlsx
\* lacks the cells of the rows a filter hides: it was emptied under the filter
SnapshotsClearedUnderFilter ==
    /\ main_window.current_filepath = "people.xlsx"
    /\ preview_table.edit_version > 0
    /\ DOMAIN preview_table.edits = {}
    /\ ~IsNone(preview_table.dataframe)
    /\ Cardinality(DOMAIN preview_table.original_values)
          < Len(Columns) * FrameLen(main_window.current_dataframe)

\* C13: the undo of one cell removes the overlay entry of that cell, shows the
\* sanitized source value (the value before the edit) in it and leaves every
\* other overlay entry as it was; for a displayed cell without an entry,
\* _undo_cell_edit leaves overlay, snapshots and edit version as they are.
UndoRestoresOneCell ==
    [][LET P == preview_table
           Q == preview_table'
       IN  /\ \A r \in 1..MaxRows, c \in Range(Columns) :
                OnUndoCellEdit(r, c) =>
                    LET key == EditKey(P, DisplayedRows(P)[r], c)
                    IN  /\ key \notin DOMAIN Q.edits
                        /\ Q.items[r][c] = SanitizeCellValue(DisplayedRows(P)[r][c])
                        /\ DOMAIN Q.edits = (DOMAIN P.edits) \ {key}
                        /\ \A k \in DOMAIN Q.edits : Q.edits[k] = P.edits[k]
           /\ \A r \in 1..Len(DisplayedRows(P)), c \in Range(Columns) :
                EditKey(P, DisplayedRows(P)[r], c) \notin DOMAIN P.edits =>
                    LET U == UndoCellEdit(P, DisplayedRows(P)[r][HashCol], c, r)
                    IN  /\ U.edits = P.edits
                        /\ U.original_values = P.original_values
                        /\ U.edit_version = P.edit_version]_vars

\* two edits were stored and one overlay entry is left, on a row whose Age
\* cell shows the overlay value while another Age cell shows its source value
OneOfTwoEditsLeft ==
    /\ preview_table.edit_version = 2
    /\ Cardinality(DOMAIN preview_table.edits) = 1
    /\ Len(preview_table.items) = Len(DisplayedRows(preview_table))
    /\ \E r1, r2 \in 1..Len(preview_table.items) :
          /\ r1 # r2
          /\ EditKey(preview_table, DisplayedRows(preview_table)[r1], "Age")
                \in DOMAIN preview_table.edits
          /\ EditKey(preview_table, DisplayedRows(preview_table)[r2], "Age")
                \notin DOMAIN preview_table.edits
          /\ preview_table.items[r2]["Age"]
                = SanitizeCellValue(DisplayedRows(preview_table)[r2]["Age"])
          /\ preview_table.items[r2]["Age"] # "30"

\* C14: for every page index and page size the page shows the rows of the
\* table at the positions of that page, and each cell of each visible column
\* shows the overlay value when the overlay has an entry for (sheet, row
\* identity, column) and the sanitized source value otherwise; turning the page
\* or changing the page size leaves the overlay as it was.
PageShowsOverlay ==
    [][LET Q == preview_table'
           start == Q.current_page * Q.rows_per_page
       IN  /\ PagingStep => Q.edits = preview_table.edits
           /\ ~IsNone(Q.dataframe) =>
                /\ start < FrameLen(Q.dataframe)
                /\ Len(Q.items) = Min(Q.rows_per_page, FrameLen(Q.dataframe) - start)
                /\ \A r \in 1..Len(Q.items) :
                      /\ DOMAIN Q.items[r] = Range(Columns)
                      /\ \A c \in Range(Columns) :
                            LET row == Q.dataframe.rows[start + r]
                                key == <<Q.current_sheet_name, row[HashCol], c>>
                            IN  Q.items[r][c] =
                                    IF key \in DOMAIN Q.edits THEN Q.edits[key]
                                    ELSE SanitizeCellValue(row[c])]_vars

\* the first of two pages is shown with the overlay value in the Age cell of
\* its first row, and the overlay holds an edit of the row on the second page
EditShownAfterPageTurn ==
    /\ ~IsNone(preview_table.dataframe)
    /\ preview_table.rows_per_page < FrameLen(preview_table.dataframe)
    /\ preview_table.current_page = 0
    /\ LET rows == preview_table.dataframe.rows
           first == <<preview_table.current_sheet_name, rows[1][HashCol], "Age">>
           last == <<preview_table.current_sheet_name, rows[Len(rows)][HashCol], "Age">>
       IN  /\ first \in DOMAIN preview_table.edits
           /\ last \in DOMAIN preview_table.edits
           /\ preview_table.items[1]["Age"] = preview_table.edits[first]

\* C15: the row identity column _row_hash is never among the visible columns of
\* the preview nor in a rendered row, and never among the columns that export
\* and export_to_csv write, whatever loads, filters, sorts and edits preceded.
RowHashNeverSurfaced ==
    /\ ~SeqContains(GetVisibleColumns(preview_table.dataframe), HashCol)
    /\ \A r \in 1..Len(preview_table.items) : HashCol \notin DOMAIN preview_table.items[r]
    /\ ~IsNone(exporter_dataframe) =>
          /\ ~SeqContains(ExportedTable(exporter_dataframe).columns, HashCol)
          /\ \A i \in 1..FrameLen(exporter_dataframe) :
                HashCol \notin DOMAIN ExportedTable(exporter_dataframe).rows[i]
          /\ ~SeqContains(ExportToCsv(exporter_dataframe)[1], HashCol)
          /\ \A i \in 1..Len(ExportToCsv(exporter_dataframe)) :
                Len(ExportToCsv(exporter_dataframe)[i]) = Len(Columns)

\* a filtered, sorted and edited table is being exported, and both the frame of
\* the preview and the frame handed to the exporter carry the identity column
ExportOfHashedFrame ==
    /\ ~IsNone(exporter_dataframe)
    /\ FrameLen(exporter_dataframe) > 0
    /\ HasColumn(exporter_dataframe, HashCol)
    /\ HasColumn(preview_table.dataframe, HashCol)
    /\ filter_panel.current_filters # <<>>
    /\ preview_table.sort_column # NoneStr
    /\ DOMAIN preview_table.edits # {}
    /\ Len(preview_table.items) > 0

\* the element type of column c of the table df and the value a text becomes in
\* a column of that type
Parses(ty, t) == (ty = "int" /\ IsNumeral(t)) \/ (ty = "float" /\ IsFloatText(t))
CoercedTo(ty, t) ==
    CASE ty \in {"int", "float"} /\ t = "" -> NullV
      [] ty = "int" /\ IsNumeral(t) -> IntV(TextToInt(t))
      [] ty = "float" /\ IsFloatText(t) -> FloatV(TextToFloat(t))
      [] OTHER -> StrV(t)

\* C16: in the table handed to the exporter, the cell of every overlay entry
\* whose row is in the base table holds the overlay text coerced to the element
\* type of its column: an integer (a float) parsed from the text, null for the
\* empty text, the text itself in a text column, and the raw text when it does
\* not parse; where an overlay text of the column does not parse, the column
\* holds texts and a parsed value is held as its text.  No entry is dropped.
ExportCoercesToColumnType ==
    ~IsNone(exporter_dataframe) =>
        LET P == preview_table
            base == P.original_dataframe
            out == exporter_dataframe
            Hit(k) == \E i \in 1..FrameLen(base) : base.rows[i][HashCol] = k[2]
            Failed(c) ==
                \E k \in DOMAIN P.edits :
                    /\ k[3] = c
                    /\ Hit(k)
                    /\ DType(base, c) \in {"int", "float"}
                    /\ P.edits[k] # ""
                    /\ ~Parses(DType(base, c), P.edits[k])
        IN  /\ out.columns = base.columns
            /\ FrameLen(out) = FrameLen(base)
            /\ \A k \in DOMAIN P.edits : \A i \in 1..FrameLen(base) :
                  base.rows[i][HashCol] = k[2] =>
                     LET want == CoercedTo(DType(base, k[3]), P.edits[k])
                         v == out.rows[i][k[3]]
                     IN  \/ v = want
                         \/ /\ Failed(k[3])
                            /\ Tag(want) # "null"
                            /\ v = StrV(SanitizeCellValue(want))

\* C17: no operation modifies the table as loaded: after every step the main
\* window and its filter engine hold the worksheet as read, every step that is
\* no load and no change of the filters (a sort, page size change, edit, undo
\* or export) leaves both tables of the preview as they were, and the export
\* reconciliation leaves overlay, snapshots, edit version and both table
\* references of the preview unchanged.
LoadedTableUnmodified ==
    [][LET M == main_window'
           P == preview_table
           Q == preview_table'
       IN  /\ ~IsNone(M.current_dataframe) =>
                /\ M.current_dataframe = ReadSheet(M.current_sheet)
                /\ M.filter_engine # NoneEngine
                /\ M.filter_engine.dataframe = ReadSheet(M.current_sheet)
           /\ (main_window' = main_window /\ filter_panel' = filter_panel) =>
                /\ Q.dataframe = P.dataframe
                /\ Q.original_dataframe = P.original_dataframe
           /\ (IsNone(exporter_dataframe) /\ ~IsNone(exporter_dataframe')) =>
                /\ Q.edits = P.edits
                /\ Q.original_values = P.original_values
                /\ Q.edit_version = P.edit_version
                /\ Q.dataframe = P.dataframe
                /\ Q.original_dataframe = P.original_dataframe]_vars

\* an export of a filtered, sorted and edited view has produced a table that
\* differs from the worksheet as read, which the main window still holds
ExportBesideLoadedTable ==
    /\ ~IsNone(exporter_dataframe)
    /\ exporter_dataframe # main_window.current_dataframe
    /\ main_window.current_dataframe = ReadSheet(main_window.current_sheet)
    /\ main_window.filter_engine.applied_filters # <<>>
    /\ preview_table.sort_column # NoneStr
    /\ DOMAIN preview_table.edits # {}
    /\ FrameLen(preview_table.dataframe) < FrameLen(main_window.current_dataframe)

\* the rows of the view df are rows of the table as loaded, and a row of df
\* with the cells of a loaded row carries the identity stamped on that row
SameIdentities(df, loaded) ==
    IsNone(df) \/
    \A i \in 1..FrameLen(df) :
        /\ \E j \in 1..FrameLen(loaded) :
              \A c \in Range(Columns) : df.rows[i][c] = loaded.rows[j][c]
        /\ \A j \in 1..FrameLen(loaded) :
              (\A c \in Range(Columns) : df.rows[i][c] = loaded.rows[j][c])
                  => df.rows[i][HashCol] = loaded.rows[j][HashCol]

\* C18: identity stability. Every row of the filtered table of the engine, of
\* the table of the preview and of its sorted display table is a row of the
\* table as loaded and carries the identity stamped on it at load.
IdentityStable ==
    ~IsNone(main_window.current_dataframe) =>
        /\ \A j \in 1..FrameLen(main_window.current_dataframe) :
              main_window.current_dataframe.rows[j][HashCol]
                  = HashRow(main_window.current_dataframe.rows[j])
        /\ SameIdentities(main_window.filter_engine.filtered_df, main_window.current_dataframe)
        /\ SameIdentities(preview_table.dataframe, main_window.current_dataframe)
        /\ SameIdentities(preview_table.display_data_cache, main_window.current_dataframe)

\* the display table is a filtered view in another order than the loaded table
FilteredViewReordered ==
    /\ ~IsNone(main_window.current_dataframe)
    /\ ~IsNone(preview_table.display_data_cache)
    /\ filter_panel.current_filters # <<>>
    /\ preview_table.sort_column # NoneStr
    /\ LET view == preview_table.display_data_cache
           loaded == main_window.current_dataframe
       IN  /\ FrameLen(view) < FrameLen(loaded)
           /\ \E i1, i2 \in 1..FrameLen(view) : \E j1, j2 \in 1..FrameLen(loaded) :
                 /\ i1 < i2
                 /\ j1 > j2
                 /\ view.rows[i1] # view.rows[i2]
                 /\ view.rows[i1] = loaded.rows[j1]
                 /\ view.rows[i2] = loaded.rows[j2]

\* C19: the snapshot of a key is the sanitized source value of its cell, set
\* when the cell is first displayed or edited: a step that is not undo_all
\* keeps every snapshot with its value (whatever edit, re-edit, undo, filter,
\* sort or page size change it is), and a snapshot that appears is that of a
\* displayed cell and holds the sanitized value of the cell in the loaded table.
SnapshotKeptUntilUndoAll ==
    [][LET P == preview_table
           Q == preview_table'
           loaded == main_window'.current_dataframe
       IN  /\ ~OnClearEdits =>
                \A k \in DOMAIN P.original_values :
                    /\ k \in DOMAIN Q.original_values
                    /\ Q.original_values[k] = P.original_values[k]
           /\ \A k \in DOMAIN Q.original_values :
                \/ /\ k \in DOMAIN P.original_values
                   /\ Q.original_values[k] = P.original_values[k]
                \/ /\ k \in DisplayedKeys(Q)
                   /\ \E j \in 1..FrameLen(loaded) :
                         /\ loaded.rows[j][HashCol] = k[2]
                         /\ Q.original_values[k] = SanitizeCellValue(loaded.rows[j][k[3]])]_vars

\* under a filter and a sort a cell holds its third stored edit (it was edited
\* again or undone meanwhile), and its snapshot is another text than the edit
SnapshotAfterReedits ==
    /\ filter_panel.current_filters # <<>>
    /\ preview_table.sort_column # NoneStr
    /\ preview_table.edit_version = MaxVersion
    /\ Cardinality(DOMAIN preview_table.edits) = 1
    /\ \A k \in DOMAIN preview_table.edits :
          /\ k \in DOMAIN preview_table.original_values
          /\ preview_table.original_values[k] \in {"30", "35"}
          /\ preview_table.edits[k] = "25"

\* C20: sanitization is idempotent: a text returned by the cell sanitizer is
\* returned unchanged when the cell sanitizer is given it, and a text returned
\* by the load-time sanitizer is returned unchanged by the load-time sanitizer.
SanitizeIdempotent ==
    [][/\ (cell_text.by = "cell" /\ OnSanitizeCellValue) => cell_text'.value = cell_text.value
       /\ (cell_text.by = "load" /\ OnSanitizeDataframe) => cell_text'.value = cell_text.value]_vars

\* the rows apply_filters is to select: all rows for an empty rule list, else
\* the rows of the source on which every (AND) or some (OR) buildable rule holds
\* (no row satisfies a predicate that cannot be evaluated on the column)
SelectedRows(E, logic) ==
    LET built == SelectSeq(E.applied_filters, LAMBDA rule : Buildable(E, rule))
        Holds(rule, row) == ~ExprRaises(E, rule) /\ ExprHolds(rule, row)
        Sat(row) == IF logic = "AND"
                    THEN \A i \in 1..Len(built) : Holds(built[i], row)
                    ELSE \E i \in 1..Len(built) : Holds(built[i], row)
    IN  IF E.applied_filters = <<>> THEN E.dataframe.rows
        ELSE SelectSeq(E.dataframe.rows, Sat)

\* C21: apply_filters selects exactly the source rows that satisfy all buildable
\* rules under AND and at least one under OR, and every row when the rule list
\* is empty.
ApplySelectsSatisfyingRows ==
    [][\A logic \in EngineLogicChoices :
          (/\ OnApplyFilters(logic)
           /\ \/ engine.applied_filters = <<>>
              \/ \E i \in 1..Len(engine.applied_filters) :
                    Buildable(engine, engine.applied_filters[i]))
              => engine'.filtered_df.rows = SelectedRows(engine, logic)]_vars

\* the rules of the list for which _build_filter_expression returns an expression
BuiltRules(E) == SelectSeq(E.applied_filters, LAMBDA rule : Buildable(E, rule))

\* C22: a rule that cannot be built (unknown operator, unknown column, bound
\* that is no number) is left out and the remaining rules are applied: the
\* result is that of the same engine holding the buildable rules only, and it
\* is every row when no rule can be built.
UnbuildableRulesOmitted ==
    [][\A logic \in EngineLogicChoices :
          OnApplyFilters(logic) =>
              engine'.filtered_df =
                  IF BuiltRules(engine) = <<>> THEN engine.dataframe
                  ELSE ApplyFilters([engine EXCEPT !.applied_filters = BuiltRules(engine)],
                                    logic).filtered_df]_vars

\* a rule that cannot be built stands beside one that removed rows
FilteredDespiteUnbuildableRule ==
    /\ \E i \in 1..Len(engine.applied_filters) :
          ~Buildable(engine, engine.applied_filters[i])
    /\ BuiltRules(engine) # <<>>
    /\ FrameLen(engine.filtered_df) < FrameLen(engine.dataframe)

\* the rules of the list that build and whose expression can be evaluated
ValidRules(E) ==
    SelectSeq(E.applied_filters, LAMBDA rule : Buildable(E, rule) /\ ~ExprRaises(E, rule))

\* C28: one bad rule never aborts the whole filter: when a rule builds but
\* cannot be evaluated (a numeric comparison on the text column), the other
\* valid rules are still applied, so the result is the rows they select.
BadRuleLeavesOthersApplied ==
    [][\A logic \in EngineLogicChoices :
          (/\ OnApplyFilters(logic)
           /\ \E i \in 1..Len(engine.applied_filters) :
                 /\ Buildable(engine, engine.applied_filters[i])
                 /\ ExprRaises(engine, engine.applied_filters[i])
           /\ ValidRules(engine) # <<>>)
              => engine'.filtered_df.rows =
                     SelectSeq(engine.dataframe.rows,
                               LAMBDA row :
                                   IF logic = "AND"
                                   THEN \A i \in 1..Len(ValidRules(engine)) :
                                           ExprHolds(ValidRules(engine)[i], row)
                                   ELSE \E i \in 1..Len(ValidRules(engine)) :
                                           ExprHolds(ValidRules(engine)[i], row))]_vars

\* C26: add_filter appends exactly one rule to the rule list and leaves the
\* filtered view alone; clear_filters empties the list and resets the filtered
\* view to all source rows, after any sequence of add_filter and apply_filters.
AddAppendsClearResets ==
    [][/\ \A rule \in RuleChoices :
             OnAddFilter(rule) =>
                 /\ engine'.applied_filters = Append(engine.applied_filters, rule)
                 /\ engine'.filtered_df = engine.filtered_df
                 /\ engine'.dataframe = engine.dataframe
       /\ OnClearFilters =>
             /\ engine'.applied_filters = <<>>
             /\ engine'.filtered_df.rows = engine.dataframe.rows
             /\ engine'.dataframe = engine.dataframe]_vars

\* a second rule was added after the first had been applied: the list holds
\* both and the view is still the one the first rule selected
RuleAddedAfterApply ==
    /\ engine.applied_filters = <<Rule("Age", "lte", "30"), Rule("Age", "gt", "26")>>
    /\ FrameLen(engine.dataframe) = 3
    /\ FrameLen(engine.filtered_df) = 2
    /\ \A i \in 1..2 : ExprHolds(Rule("Age", "lte", "30"), engine.filtered_df.rows[i])

\* s holds some of the elements of t, in the order of t
IsSubSeq(s, t) ==
    \E f \in [1..Len(s) -> 1..Len(t)] :
        /\ \A i \in 1..Len(s) : t[f[i]] = s[i]
        /\ \A i, j \in 1..Len(s) : i < j => f[i] < f[j]

\* C27: after any sequence of add_filter, apply_filters and clear_filters the
\* filtered rows are rows of the source in source order, and get_statistics
\* reports the row count of the source, the row count of the filtered view and
\* their difference as rows_removed, which is never negative.
FilteredWithinSource ==
    /\ IsSubSeq(engine.filtered_df.rows, engine.dataframe.rows)
    /\ GetStatistics(engine).original_rows = Len(engine.dataframe.rows)
    /\ GetStatistics(engine).filtered_rows = Len(engine.filtered_df.rows)
    /\ GetStatistics(engine).rows_removed =
           Len(engine.dataframe.rows) - Len(engine.filtered_df.rows)
    /\ GetStatistics(engine).rows_removed >= 0

\* two rules were applied and removed the first and the last row
MiddleRowLeft ==
    /\ Len(engine.applied_filters) = 2
    /\ FrameLen(engine.dataframe) = 3
    /\ engine.filtered_df.rows = <<engine.dataframe.rows[2]>>
    /\ GetStatistics(engine).rows_removed = 2

\* C25: the table returned by read_sheet has exactly the columns of the
\* worksheet, so as many columns as the worksheet, and get_statistics reports
\* that count as total_columns.
ReadSheetHasWorksheetColumns ==
    ~IsNone(main_window.current_dataframe) =>
        /\ main_window.current_dataframe.columns = Columns
        /\ ReaderGetStatistics(main_window.current_dataframe).total_columns = Len(Columns)

\* C23: a sheet load that fails and an export that fails change none of the
\* overlay entries, the snapshot map, the edit version and the displayed
\* table; the failure is reported in a message box; and the window, the table
\* and the filter panel are as before with no export in progress, so that
\* loading, editing and exporting go on as before the failure.
FailureChangesNothing ==
    [][((\E i \in 1..MaxInFlight : OnLoadError(i)) \/ OnExportFinished(FALSE)) =>
          /\ preview_table'.edits = preview_table.edits
          /\ preview_table'.original_values = preview_table.original_values
          /\ preview_table'.edit_version = preview_table.edit_version
          /\ preview_table'.items = preview_table.items
          /\ preview_table' = preview_table
          /\ main_window' = main_window
          /\ filter_panel' = filter_panel
          /\ message_box' \in {"Error", "Export Failed"}
          /\ IsNone(exporter_dataframe')
          /\ Len(load_threads') <= Len(load_threads)]_vars

\* an edited table is being exported after the load of the sheet chosen in the
\* sheet switcher has failed: the table shown is still that of the other sheet
ExportAfterFailedLoad ==
    /\ load_threads = <<>>
    /\ message_box = NoneStr
    /\ ~IsNone(main_window.current_dataframe)
    /\ main_window.current_dataframe # ReadSheet(main_window.current_sheet)
    /\ preview_table.edits # EmptyMap
    /\ ~IsNone(exporter_dataframe)

\* the last progress a run has reported
LastProgress == export_run.progress[Len(export_run.progress)]

\* C24: export and export_to_csv return True only when the file has been
\* written and 100 is the last progress reported; they return False with 0 as
\* the last progress reported when there is no dataframe, the directory cannot
\* be created or the file cannot be written; and a run that returns False has
\* never reported progress 100.
ExportResultMatchesProgress ==
    /\ export_run.result = "True" => export_run.file_written /\ LastProgress = 100
    /\ export_run.result = "False" =>
          /\ LastProgress = 0
          /\ \A i \in 1..Len(export_run.progress) : export_run.progress[i] # 100

\* the rows of a written table as texts, and the number of times a row of
\* texts occurs in a sequence of such rows
WrittenRows(df) ==
    [i \in 1..FrameLen(df) |-> [c \in Range(Columns) |-> SanitizeCellValue(df.rows[i][c])]]
Occurrences(rows, x) == Cardinality({i \in 1..Len(rows) : rows[i] = x})

\* C29: while a filter is active, the rows the export writes are exactly the
\* rows shown in the preview, with the edits applied: each shown row is written
\* as often as it is shown and no other row is written, so that editing a
\* displayed cell never removes its row from the export.
ExportMatchesFilteredPreview ==
    (/\ ~IsNone(exporter_dataframe)
     /\ filter_panel.current_filters # <<>>)
    => LET written == WrittenRows(exporter_dataframe)
           shown == [r \in 1..Len(preview_table.items) |->
                        [c \in Range(Columns) |-> preview_table.items[r][c]]]
       IN  /\ Len(written) = Len(shown)
           /\ \A r \in 1..Len(shown) :
                 Occurrences(written, shown[r]) = Occurrences(shown, shown[r])

\* C30: preview and export agree cell for cell: every cell of the displayed
\* table whose key has an overlay entry, which the preview shows with the
\* overlay value, holds that value in the table get_edited_dataframe builds
\* over the same base table, also when rows of equal content share a key.
ReconciliationWritesEveryOverlaidCell ==
    ~IsNone(preview_table.dataframe) =>
        LET P == preview_table
            base == P.dataframe
            edited == GetEditedDataframe(P, TRUE)
        IN  \A i \in 1..FrameLen(base) : \A c \in Range(Columns) :
                EditKey(P, base.rows[i], c) \in DOMAIN P.edits =>
                    SanitizeCellValue(edited.rows[i][c])
                        = P.edits[EditKey(P, base.rows[i], c)]

\* C31: after any sequence of file loads and sheet switches, also switches
\* served from the sheet cache, the source table of the filter engine is the
\* table of the sheet on display, so that a filter shows and exports rows of
\* that sheet only.
EngineSourceIsDisplayedSheet ==
    (main_window.filter_engine # NoneEngine /\ ~IsNone(main_window.current_dataframe)) =>
        main_window.filter_engine.dataframe = main_window.current_dataframe

\* C32: for every sheet name in sheet_cache the cached table is the data read
\* from that sheet, under every interleaving of sheet switches and load
\* completions: a load that completes after the user has switched to another
\* sheet is not stored under the other sheet's name.
CacheHoldsItsSheet ==
    \A s \in DOMAIN main_window.sheet_cache :
        main_window.sheet_cache[s] = ReadSheet(s)

\* C33: whenever no load is in flight, current_sheet names the sheet whose
\* table the preview displays (the sheet selected last), also after load
\* errors, after loads that complete out of order and after the sheet switcher
\* is filled again.
CurrentSheetIsDisplayed ==
    (load_threads = <<>> /\ ~IsNone(main_window.current_dataframe)) =>
        /\ main_window.current_dataframe = ReadSheet(main_window.current_sheet)
        /\ SameIdentities(preview_table.dataframe, ReadSheet(main_window.current_sheet))

\* C34: after a new file is opened, a sheet switch never displays a table
\* loaded from a file opened before: a cache entry that is served holds the
\* sheet of that name of the file now open.
ServedCacheEntryIsOfOpenFile ==
    [][\A s \in AllSheetNames :
          (OnSheetChanged(s) /\ s \in DOMAIN main_window.sheet_cache) =>
              main_window'.current_dataframe
                  = ReadSheetOf(main_window.current_filepath, s)]_vars

\* the overlay entries that have a cell in the base table: their sheet is the
\* current one, their column a column of the table, their identity that of a row
MatchingEdits(P, base) ==
    {k \in DOMAIN P.edits :
        /\ k[1] = P.current_sheet_name
        /\ k[3] \in Range(base.columns)
        /\ HashToIndex(base, k[2]) # 0}

\* C35: in export reconciliation an overlay entry without a cell in the chosen
\* base table (its row is not in the table, or its sheet or column does not
\* match) is skipped: the table built is the one built without that entry,
\* every cell that has no overlay entry reads as in the base table, and the
\* entry stays in the overlay.
UnmatchedEntriesSkipped ==
    [][(IsNone(exporter_dataframe) /\ ~IsNone(exporter_dataframe')) =>
          /\ preview_table'.edits = preview_table.edits
          /\ \A v \in BOOLEAN :
                LET P == preview_table
                    base == EditSource(P, v)
                    Q == [P EXCEPT !.edits = [k \in MatchingEdits(P, base) |-> P.edits[k]]]
                    edited == GetEditedDataframe(P, v)
                IN  /\ edited = GetEditedDataframe(Q, v)
                    /\ FrameLen(edited) = FrameLen(base)
                    /\ \A i \in 1..FrameLen(base) : \A c \in Range(Columns) :
                          EditKey(P, base.rows[i], c) \notin DOMAIN P.edits =>
                              SanitizeCellValue(edited.rows[i][c])
                                  = SanitizeCellValue(base.rows[i][c])]_vars

\* a table is being exported whose overlay holds an entry of a row the filter
\* has removed beside an entry of a row on display
ExportWithEntryOfHiddenRow ==
    /\ ~IsNone(exporter_dataframe)
    /\ ~IsNone(preview_table.dataframe)
    /\ \E k \in DOMAIN preview_table.edits :
          HashToIndex(preview_table.dataframe, k[2]) = 0
    /\ MatchingEdits(preview_table, preview_table.dataframe) # {}

\* the truthy-string heuristic of the boolean branch of get_edited_dataframe
TruthyText(new_value) ==
    IF new_value = "" THEN NullV
    ELSE BoolV(Lower(new_value) \in {"true", "1", "yes"})

\* C36: for a cell of a boolean column, export reconciliation converts the
\* overlay text with the truthy-string heuristic: "true", "1" and "yes" in any
\* case give true, any other non-empty text false, the empty text null.
BooleanEditsUseTruthyText ==
    ~IsNone(exporter_dataframe) =>
        LET P == preview_table
            base == EditSource(P, FALSE)
            edited == GetEditedDataframe(P, FALSE)
        IN  \A i \in 1..FrameLen(base) : \A c \in Range(Columns) :
                (Tag(base.rows[i][c]) = "bool" /\ EditKey(P, base.rows[i], c) \in DOMAIN P.edits)
                    => edited.rows[i][c] = TruthyText(P.edits[EditKey(P, base.rows[i], c)])

\* C37: when the filter manager is opened, the "Changes detected" warning is
\* shown if filters are applied and an edit was recorded since they were
\* applied (the edit version is above the one captured when they were
\* applied), and it is hidden otherwise: no edit since, or filters cleared.
WarningShownIffEditedSinceFilter ==
    [][(~PopupShown /\ PopupShown') =>
          (filter_panel'.popup_window.edit_warning_visible
              <=> /\ filter_panel.current_filters # <<>>
                  /\ filter_panel.popup_window # NonePopup
                  /\ preview_table.edit_version
                        > filter_panel.popup_window.edit_version_at_filter_time)]_vars

\* C38: whenever a non-empty table is on display, the current page lies between
\* 0 and total_pages - 1, where total_pages is the row count divided by the
\* page size, rounded up, and the rendered rows are exactly the rows from
\* current_page * rows_per_page up to that plus rows_per_page, or the end of
\* the table: after any sequence of next, previous, page selection, page size
\* change, filter and sort.
PageInRangeAndWindowRendered ==
    LET P == preview_table
        dd == P.display_data_cache
    IN  (~IsNone(P.dataframe) /\ ~IsNone(dd) /\ FrameLen(dd) > 0) =>
            LET total_rows == FrameLen(dd)
                total_pages == (total_rows + P.rows_per_page - 1) \div P.rows_per_page
                start_row == P.current_page * P.rows_per_page
                end_row == Min(start_row + P.rows_per_page, total_rows)
            IN  /\ 0 <= P.current_page
                /\ P.current_page <= total_pages - 1
                /\ Len(P.items) = end_row - start_row
                /\ \A r \in 1..Len(P.items) : \A c \in Range(Columns) :
                      P.items[r][c] = DisplayedValue(P, dd.rows[start_row + r], c)

\* the second page of a sorted and filtered table of eleven rows is on display
SecondPageOfSortedTable ==
    /\ ~IsNone(preview_table.dataframe)
    /\ preview_table.current_page = 1
    /\ preview_table.sort_column # NoneStr
    /\ filter_panel.current_filters # <<>>
    /\ Len(preview_table.items) = 1

\* the calls of worksheet.write made for the cell at (row, col)
WritesAt(row, col) ==
    {k \in 1..Len(export_run.written) :
        export_run.written[k][1] = row /\ export_run.written[k][2] = col}

\* C39: for any table and any chunk_size >= 1, the export writes the header
\* once, at worksheet row 0, and every data row exactly once, table row i
\* (counted from 0) at worksheet row i + 1, a null cell as the empty string:
\* the loop in chunks and the loop without chunks write the same cells.
ChunkedExportWritesEachRowOnce ==
    export_run.pc = "done" =>
        LET df == ExportedFrame(exporter_dataframe)
            written == export_run.written
        IN  /\ Len(written) = (FrameLen(df) + 1) * Len(df.columns)
            /\ \A j \in 1..Len(df.columns) :
                  /\ Cardinality(WritesAt(0, j - 1)) = 1
                  /\ \A k \in WritesAt(0, j - 1) : written[k][3] = StrV(df.columns[j])
                  /\ \A i \in 1..FrameLen(df) :
                        /\ Cardinality(WritesAt(i, j - 1)) = 1
                        /\ \A k \in WritesAt(i, j - 1) :
                              written[k][3] =
                                  IF df.rows[i][df.columns[j]] = NullV THEN StrV("")
                                  ELSE df.rows[i][df.columns[j]]

\* a table has been written in chunks, the last chunk shorter than the others
WrittenInUnevenChunks ==
    /\ export_run.pc = "done"
    /\ export_run.chunk_size < FrameLen(exporter_dataframe)
    /\ FrameLen(exporter_dataframe) % export_run.chunk_size # 0
    /\ export_run.chunk_size > 1

====
